---- MODULE Spec2Model ----
(***************************************************************************)
(* Model of the project-manager core: the issue tree, the automatic state  *)
(* calculation, the update / create / delete handlers of the               *)
(* ProjectSpecification component and the GitHub service they drive.       *)
(***************************************************************************)
EXTENDS Integers, Sequences, FiniteSets, TLC

(***************************************************************************)
(* Bounds of the model.                                                    *)
(***************************************************************************)
\* largest number of issues in a forest handed to the state calculation
MaxNodes == 4
\* largest number of handlers started in one behaviour
MaxOps == 2
\* largest issue number the repository hands out
MaxIssueNumber == 5

States == {"To Do", "In Progress", "Done"}

VARIABLES
  engIn,      \* forest handed to IssueStateManager.updateIssueStatesRecursively
  engOut,     \* its result
  engOut2,    \* the result of applying it to engOut
  engPc,      \* "off" | "in" | "once" | "twice"
  project,    \* Dashboard.selectedProject.issues: the published snapshot
  github,     \* the repository's issue records, by number
  subIssuesOf,\* GitHub's sub-issue links: number -> numbers of its sub-issues
  branches,   \* numbers n whose branch issue-n exists
  deletedIssuesCache, \* GitHubService.deletedIssuesCache
  h,          \* the frame of the handler that runs: its closure and locals
  toasts,     \* notifications of the handler that runs (toastService)
  calls,      \* GitHub requests of the handler that runs, in order
  ops,        \* handlers started so far
  suspended   \* the frame of a handler that waits for its awaited call while
              \* another handler runs: <<>> or <<frame>>

engVars == <<engIn, engOut, engOut2, engPc>>
sagaVars == <<project, github, subIssuesOf, branches, deletedIssuesCache, h,
              toasts, calls, ops, suspended>>
vars == <<engIn, engOut, engOut2, engPc, project, github, subIssuesOf, branches,
          deletedIssuesCache, h, toasts, calls, ops, suspended>>

(***************************************************************************)
(* Issue (types.ts): a record; subIssues is a sequence of Issues.          *)
(***************************************************************************)
Issue(id, title, description, state, type, subIssues) ==
  [id |-> id, title |-> title, description |-> description, state |-> state,
   type |-> type, subIssues |-> subIssues]

RECURSIVE AllNodes(_)
\* every node of a forest, at any depth
AllNodes(issues) ==
  UNION { {issues[i]} \cup AllNodes(issues[i].subIssues) : i \in 1..Len(issues) }

RECURSIVE NodeSeq(_)
\* the nodes of a forest in pre-order
NodeSeq(issues) ==
  IF Len(issues) = 0 THEN <<>>
  ELSE <<issues[1]>> \o NodeSeq(issues[1].subIssues) \o NodeSeq(Tail(issues))

(***************************************************************************)
(* IssueStateManager                                                       *)
(***************************************************************************)
isLeafIssue(issue) == Len(issue.subIssues) = 0

\* mutant: every issue can be given a state by hand
AnyIssueEditable(issue) == TRUE

canChangeIssueState(issue) == isLeafIssue(issue)

RECURSIVE EveryInProgressState(_)
\* mutant: In Progress only when every sub-issue is In Progress
EveryInProgressState(issue) ==
  IF isLeafIssue(issue) THEN issue.state
  ELSE LET subIssueStates ==
             [i \in 1..Len(issue.subIssues) |->
                EveryInProgressState(issue.subIssues[i])]
       IN IF \A i \in 1..Len(subIssueStates) : subIssueStates[i] = "In Progress"
            THEN "In Progress"
          ELSE IF Len(subIssueStates) > 0
                  /\ \A i \in 1..Len(subIssueStates) : subIssueStates[i] = "Done"
            THEN "Done"
          ELSE "To Do"

RECURSIVE SomeDoneState(_)
\* mutant: Done as soon as some sub-issue is Done
SomeDoneState(issue) ==
  IF isLeafIssue(issue) THEN issue.state
  ELSE LET subIssueStates ==
             [i \in 1..Len(issue.subIssues) |->
                SomeDoneState(issue.subIssues[i])]
       IN IF \E i \in 1..Len(subIssueStates) : subIssueStates[i] = "In Progress"
            THEN "In Progress"
          ELSE IF Len(subIssueStates) > 0
                  /\ \E i \in 1..Len(subIssueStates) : subIssueStates[i] = "Done"
            THEN "Done"
          ELSE "To Do"

RECURSIVE calculateAutomaticState(_)
calculateAutomaticState(issue) ==
  IF isLeafIssue(issue) THEN issue.state
  ELSE LET subIssueStates ==
             [i \in 1..Len(issue.subIssues) |->
                calculateAutomaticState(issue.subIssues[i])]
       IN IF \E i \in 1..Len(subIssueStates) : subIssueStates[i] = "In Progress"
            THEN "In Progress"
          ELSE IF Len(subIssueStates) > 0
                  /\ \A i \in 1..Len(subIssueStates) : subIssueStates[i] = "Done"
            THEN "Done"
          ELSE "To Do"

RECURSIVE StaleStatesRecursively(_)
\* mutant: the state is taken from the sub-issues' stored states, not from
\* the recalculated ones
StaleStatesRecursively(issues) ==
  [i \in 1..Len(issues) |->
     LET issue == issues[i]
         subs  == issue.subIssues
     IN [issue EXCEPT
           !.subIssues = StaleStatesRecursively(subs),
           !.state = IF Len(subs) = 0 THEN issue.state
                     ELSE IF \E j \in 1..Len(subs) : subs[j].state = "In Progress"
                       THEN "In Progress"
                     ELSE IF \A j \in 1..Len(subs) : subs[j].state = "Done"
                       THEN "Done"
                     ELSE "To Do"]]

RECURSIVE ResetStatesRecursively(_)
\* mutant: the state of every issue is calculated from nothing, leaves included
ResetStatesRecursively(issues) ==
  [i \in 1..Len(issues) |->
     [issues[i] EXCEPT !.subIssues = ResetStatesRecursively(issues[i].subIssues),
                       !.state = "To Do"]]

RECURSIVE updateIssueStatesRecursively(_)
updateIssueStatesRecursively(issues) ==
  [i \in 1..Len(issues) |->
     LET issue == issues[i]
         updatedSubIssues == updateIssueStatesRecursively(issue.subIssues)
         updatedIssue == [issue EXCEPT !.subIssues = updatedSubIssues]
         calculatedState == calculateAutomaticState(updatedIssue)
     IN [updatedIssue EXCEPT !.state = calculatedState]]

(***************************************************************************)
(* Bounded forests: issues 1..n, each with a parent of smaller id (0: a    *)
(* root), children in id order, any state at every node.                  *)
(***************************************************************************)
ParentVectors(n) == { p \in [1..n -> 0..(n-1)] : \A i \in 1..n : p[i] < i }

RECURSIVE IdsToSeq(_)
IdsToSeq(S) ==
  IF S = {} THEN <<>>
  ELSE LET m == CHOOSE x \in S : \A y \in S : x <= y
       IN <<m>> \o IdsToSeq(S \ {m})

RECURSIVE BuildForest(_, _, _, _)
\* the forest of the children of `parent` under the parent vector p
BuildForest(parent, p, st, n) ==
  LET kids == IdsToSeq({ i \in 1..n : p[i] = parent })
  IN [k \in 1..Len(kids) |->
        Issue(kids[k], "t0", "d0", st[kids[k]], "Task",
              BuildForest(kids[k], p, st, n))]

ForestsOf(n) ==
  { BuildForest(0, p, st, n) : p \in ParentVectors(n), st \in [1..n -> States] }

(***************************************************************************)
(* The state calculation applied once and twice to any bounded forest.     *)
(***************************************************************************)
InitEngine ==
  /\ engIn \in UNION { ForestsOf(n) : n \in 1..MaxNodes }
  /\ engOut = <<>>
  /\ engOut2 = <<>>
  /\ engPc = "in"
  /\ project = <<>>
  /\ github = <<>>
  /\ subIssuesOf = <<>>
  /\ branches = {}
  /\ deletedIssuesCache = {}
  /\ h = <<>>
  /\ toasts = <<>>
  /\ calls = <<>>
  /\ ops = 0
  /\ suspended = <<>>

EngineCompute ==
  /\ engPc = "in"
  /\ engOut' = updateIssueStatesRecursively(engIn)
  /\ engPc' = "once"
  /\ UNCHANGED <<engIn, engOut2>>
  /\ UNCHANGED sagaVars

EngineRecompute ==
  /\ engPc = "once"
  /\ engOut2' = updateIssueStatesRecursively(engOut)
  /\ engPc' = "twice"
  /\ UNCHANGED <<engIn, engOut>>
  /\ UNCHANGED sagaVars

NextEngine == EngineCompute \/ EngineRecompute

SpecEngine == InitEngine /\ [][NextEngine]_vars

(***************************************************************************)
(* issueUtils.ts: operations on the issue tree.  A missing result (null)   *)
(* is the empty sequence, a found issue a one-element sequence.            *)
(***************************************************************************)
RECURSIVE findAtRootOnly(_, _)
\* mutant: the search does not look into the sub-issues
findAtRootOnly(issues, targetId) ==
  IF Len(issues) = 0 THEN <<>>
  ELSE IF Head(issues).id = targetId THEN <<Head(issues)>>
  ELSE findAtRootOnly(Tail(issues), targetId)

RECURSIVE findIssueInTree(_, _)
findIssueInTree(issues, targetId) ==
  IF Len(issues) = 0 THEN <<>>
  ELSE LET issue == Head(issues)
       IN IF issue.id = targetId THEN <<issue>>
          ELSE LET found == findIssueInTree(issue.subIssues, targetId)
               IN IF Len(found) > 0 THEN found
                  ELSE findIssueInTree(Tail(issues), targetId)

RECURSIVE updateIssueInTree(_, _)
updateIssueInTree(issues, updatedIssue) ==
  [i \in 1..Len(issues) |->
     LET issue == issues[i]
     IN IF issue.id = updatedIssue.id THEN updatedIssue
        ELSE IF Len(issue.subIssues) > 0
          THEN [issue EXCEPT !.subIssues = updateIssueInTree(issue.subIssues, updatedIssue)]
        ELSE issue]

\* mutant: the new issue becomes the first sub-issue of the parent
addIssueFirst(issues, newIssue, parentId) ==
  [i \in 1..Len(issues) |->
     LET issue == issues[i]
     IN IF issue.id = parentId
          THEN [issue EXCEPT !.subIssues = <<newIssue>> \o issue.subIssues]
        ELSE issue]

RECURSIVE addIssueToParent(_, _, _)
addIssueToParent(issues, newIssue, parentId) ==
  [i \in 1..Len(issues) |->
     LET issue == issues[i]
     IN IF issue.id = parentId
          THEN [issue EXCEPT !.subIssues = Append(issue.subIssues, newIssue)]
        ELSE IF Len(issue.subIssues) > 0
          THEN [issue EXCEPT !.subIssues = addIssueToParent(issue.subIssues, newIssue, parentId)]
        ELSE issue]

RECURSIVE replaceIssueInTree(_, _, _)
replaceIssueInTree(issues, oldId, newIssue) ==
  [i \in 1..Len(issues) |->
     LET issue == issues[i]
     IN IF issue.id = oldId THEN newIssue
        ELSE IF Len(issue.subIssues) > 0
          THEN [issue EXCEPT !.subIssues = replaceIssueInTree(issue.subIssues, oldId, newIssue)]
        ELSE issue]

RECURSIVE removeIssueFromTree(_, _)
\* removeIssueFromTree of the earlier handleIssueDelete.  The filter returns
\* a new array, and assigns to the subIssues field of the issues it keeps:
\* result is the returned forest, input is the forest passed in as it is
\* after the call.
removeIssueFromTree(issues, issueToDeleteId) ==
  LET visited == [i \in 1..Len(issues) |->
                    LET issue == issues[i]
                    IN IF issue.id = issueToDeleteId THEN issue
                       ELSE IF Len(issue.subIssues) > 0
                         THEN [issue EXCEPT !.subIssues =
                                 removeIssueFromTree(issue.subIssues, issueToDeleteId).result]
                       ELSE issue]
      Kept(issue) == issue.id # issueToDeleteId
  IN [result |-> SelectSeq(visited, Kept), input |-> visited]

RECURSIVE SumSeq(_)
SumSeq(s) == IF Len(s) = 0 THEN 0 ELSE Head(s) + SumSeq(Tail(s))

RECURSIVE countSubIssues(_)
countSubIssues(issue) ==
  Len(issue.subIssues)
    + SumSeq([i \in 1..Len(issue.subIssues) |-> countSubIssues(issue.subIssues[i])])

(***************************************************************************)
(* OptimisticUpdateManager.  A Project is modelled by its issues; name,    *)
(* description and repository never change.                                *)
(***************************************************************************)
\* mutant: the states of the ancestors are left as they were
UpdateWithoutRecompute(projectIssues, updatedIssue) ==
  updateIssueInTree(projectIssues, updatedIssue)

createOptimisticUpdate(projectIssues, updatedIssue) ==
  updateIssueStatesRecursively(updateIssueInTree(projectIssues, updatedIssue))

\* parent: <<>> for a root issue, <<parentId>> for a sub-issue
createOptimisticCreation(projectIssues, newIssue, parent) ==
  LET updatedIssues ==
        IF Len(parent) > 0 THEN addIssueToParent(projectIssues, newIssue, parent[1])
        ELSE Append(projectIssues, newIssue)
  IN updateIssueStatesRecursively(updatedIssues)

\* mutant: the real issue is added as a root issue and the optimistic one stays
replaceKeepsPlaceholder(projectIssues, tempId, realIssue) ==
  Append(projectIssues, realIssue)

replaceOptimisticIssue(projectIssues, tempId, realIssue) ==
  replaceIssueInTree(projectIssues, tempId, realIssue)

(***************************************************************************)
(* Error messages.  A message is a sequence of tokens so that              *)
(* String.includes can be computed; the branch name is left out.           *)
(***************************************************************************)
MessageText(m) ==
  CASE m = "branch.exists" -> <<"Branch", "already", "exists", ".">>
    [] m = "branch.base404" ->
         <<"Base", "branch", "not", "found", "or", "repository", "not", "accessible", ".">>
    [] m = "branch.failed" -> <<"Failed", "to", "create", "branch", ":", "Server", "Error">>
    [] m = "merge.empty" ->
         <<"Merge", "failed", ":", "Branch", "has", "no", "commits", "to", "merge", ".",
           "Cannot", "create", "pull", "request", "for", "empty", "branch", ".">>
    [] m = "merge.422" ->
         <<"Cannot", "merge", "branch", ":", "No", "commits", "to", "merge", "or",
           "merge", "conflicts", "detected", ".">>
    [] m = "merge.404" ->
         <<"Branch", "not", "found", "or", "repository", "not", "accessible", ".">>
    [] m = "merge.409" ->
         <<"Merge", "conflict", "detected", "in", "branch", ".", "Manual",
           "resolution", "required", ".">>
    [] m = "merge.failed" -> <<"Merge", "failed", ":", "Server", "Error">>
    [] m = "delete.404" -> <<"Branch", "not", "found", "or", "already", "deleted", ".">>
    [] m = "delete.failed" -> <<"Failed", "to", "delete", "branch", ":", "Server", "Error">>
    [] OTHER -> <<>>

\* mutant: no message is recognised
IncludesNothing(text, needle) == FALSE

\* String.prototype.includes on token sequences
Includes(text, needle) ==
  \E k \in 0..(Len(text) - Len(needle)) :
     \A j \in 1..Len(needle) : text[k + j] = needle[j]

(***************************************************************************)
(* GitHubIssueOperations on the issue records.  `env` is what GitHub       *)
(* answers; a result carries the new records and the requests issued.      *)
(***************************************************************************)
Request(api, number, ok, data) ==
  [api |-> api, number |-> number, ok |-> ok, data |-> data]

GitHubRecord(title, body, state, labels) ==
  [title |-> title, body |-> body, state |-> state, labels |-> labels]

UpdateIssueEnvs == {"ok", "get_fails", "update_fails"}

\* mutant: a refused update is taken for an applied one
updateIssueSwallowsFailure(gh, cache, issueNumber, updates, env) ==
  IF issueNumber \in cache
    THEN [ok |-> FALSE, github |-> gh, calls |-> <<>>]
  ELSE IF issueNumber \notin DOMAIN gh \/ env = "get_fails"
    THEN [ok |-> FALSE, github |-> gh,
          calls |-> <<Request("issues.get", issueNumber, FALSE, <<>>)>>]
  ELSE IF "deleted" \in gh[issueNumber].labels
    THEN [ok |-> FALSE, github |-> gh,
          calls |-> <<Request("issues.get", issueNumber, TRUE, <<>>)>>]
  ELSE IF env = "update_fails"
    THEN [ok |-> TRUE, github |-> gh,
          calls |-> <<Request("issues.get", issueNumber, TRUE, <<>>),
                      Request("issues.update", issueNumber, FALSE, <<updates>>)>>]
  ELSE [ok |-> TRUE,
        github |-> [gh EXCEPT ![issueNumber] =
                      GitHubRecord(updates.title, updates.body, updates.state,
                                   updates.labels)],
        calls |-> <<Request("issues.get", issueNumber, TRUE, <<>>),
                    Request("issues.update", issueNumber, TRUE, <<updates>>)>>]

\* mutant: the tombstone set is not consulted before the requests
updateIssueIgnoresTombstone(gh, cache, issueNumber, updates, env) ==
  IF issueNumber \notin DOMAIN gh \/ env = "get_fails"
    THEN [ok |-> FALSE, github |-> gh,
          calls |-> <<Request("issues.get", issueNumber, FALSE, <<>>)>>]
  ELSE IF env = "update_fails"
    THEN [ok |-> FALSE, github |-> gh,
          calls |-> <<Request("issues.get", issueNumber, TRUE, <<>>),
                      Request("issues.update", issueNumber, FALSE, <<updates>>)>>]
  ELSE [ok |-> TRUE,
        github |-> [gh EXCEPT ![issueNumber] =
                      GitHubRecord(updates.title, updates.body, updates.state,
                                   updates.labels)],
        calls |-> <<Request("issues.get", issueNumber, TRUE, <<>>),
                    Request("issues.update", issueNumber, TRUE, <<updates>>)>>]

updateIssue(gh, cache, issueNumber, updates, env) ==
  IF issueNumber \in cache
    THEN [ok |-> FALSE, github |-> gh, calls |-> <<>>]
  ELSE IF issueNumber \notin DOMAIN gh \/ env = "get_fails"
    THEN [ok |-> FALSE, github |-> gh,
          calls |-> <<Request("issues.get", issueNumber, FALSE, <<>>)>>]
  ELSE IF "deleted" \in gh[issueNumber].labels
    THEN [ok |-> FALSE, github |-> gh,
          calls |-> <<Request("issues.get", issueNumber, TRUE, <<>>)>>]
  ELSE IF env = "update_fails"
    THEN [ok |-> FALSE, github |-> gh,
          calls |-> <<Request("issues.get", issueNumber, TRUE, <<>>),
                      Request("issues.update", issueNumber, FALSE, <<updates>>)>>]
  ELSE [ok |-> TRUE,
        github |-> [gh EXCEPT ![issueNumber] =
                      GitHubRecord(updates.title, updates.body, updates.state,
                                   updates.labels)],
        calls |-> <<Request("issues.get", issueNumber, TRUE, <<>>),
                    Request("issues.update", issueNumber, TRUE, <<updates>>)>>]

\* the update that handleIssueUpdate sends for updatedIssue
ForwardUpdateData(updatedIssue) ==
  [title |-> updatedIssue.title,
   body |-> updatedIssue.description,
   state |-> IF updatedIssue.state = "Done" THEN "closed" ELSE "open",
   labels |-> {updatedIssue.type}
                \cup (IF updatedIssue.state = "In Progress" THEN {"in-progress"} ELSE {})]

\* mutant: the rollback always reopens the issue
RollbackAsOpen(originalIssue) ==
  [title |-> originalIssue.title,
   body |-> originalIssue.description,
   state |-> "open",
   labels |-> {originalIssue.type}
                \cup (IF originalIssue.state = "In Progress" THEN {"in-progress"} ELSE {})]

\* mutant: the rollback never sends the in-progress label
RollbackWithoutLabel(originalIssue) ==
  [title |-> originalIssue.title,
   body |-> originalIssue.description,
   state |-> IF originalIssue.state = "Done" THEN "closed" ELSE "open",
   labels |-> {originalIssue.type}]

\* the update that rollbackIssueState sends for originalIssue
RollbackUpdateData(originalIssue) ==
  [title |-> originalIssue.title,
   body |-> originalIssue.description,
   state |-> IF originalIssue.state = "Done" THEN "closed" ELSE "open",
   labels |-> {originalIssue.type}
                \cup (IF originalIssue.state = "In Progress" THEN {"in-progress"} ELSE {})]

\* mutant: a rollback that failed is tried a second time
rollbackWithRetry(gh, cache, issueNumber, originalIssue, env) ==
  LET r == updateIssue(gh, cache, issueNumber, RollbackUpdateData(originalIssue), env)
  IN IF r.ok THEN r ELSE [r EXCEPT !.calls = r.calls \o r.calls]

rollbackIssueState(gh, cache, issueNumber, originalIssue, env) ==
  updateIssue(gh, cache, issueNumber, RollbackUpdateData(originalIssue), env)

(***************************************************************************)
(* GitHubBranchOperations.  A result carries the branches afterwards, the  *)
(* thrown message ("" when none) and the requests issued.                  *)
(***************************************************************************)
BranchResult(ok, error, brs, reqs) ==
  [ok |-> ok, error |-> error, branches |-> brs, calls |-> reqs]

CreateBranchEnvs == {"ok", "base_missing", "error"}

createBranch(brs, n, env) ==
  IF env = "base_missing"
    THEN BranchResult(FALSE, "branch.base404", brs,
                      <<Request("git.getRef", n, FALSE, <<>>)>>)
  ELSE IF n \in brs
    THEN BranchResult(FALSE, "branch.exists", brs,
                      <<Request("git.getRef", n, TRUE, <<>>),
                        Request("git.createRef", n, FALSE, <<>>)>>)
  ELSE IF env = "error"
    THEN BranchResult(FALSE, "branch.failed", brs,
                      <<Request("git.getRef", n, TRUE, <<>>),
                        Request("git.createRef", n, FALSE, <<>>)>>)
  ELSE BranchResult(TRUE, "", brs \cup {n},
                    <<Request("git.getRef", n, TRUE, <<>>),
                      Request("git.createRef", n, TRUE, <<>>)>>)

DeleteBranchEnvs == {"ok", "error"}

deleteBranch(brs, n, env) ==
  IF n \notin brs
    THEN BranchResult(FALSE, "delete.404", brs,
                      <<Request("git.deleteRef", n, FALSE, <<>>)>>)
  ELSE IF env = "error"
    THEN BranchResult(FALSE, "delete.failed", brs,
                      <<Request("git.deleteRef", n, FALSE, <<>>)>>)
  ELSE BranchResult(TRUE, "", brs \ {n},
                    <<Request("git.deleteRef", n, TRUE, <<>>)>>)

MergeBranchEnvs == {"ok", "empty", "create422", "merge409", "error"}

mergeBranch(brs, n, env) ==
  IF n \notin brs
    THEN BranchResult(FALSE, "merge.404", brs,
                      <<Request("repos.compareCommits", n, FALSE, <<>>)>>)
  ELSE IF env = "empty"
    THEN BranchResult(FALSE, "merge.empty", brs,
                      <<Request("repos.compareCommits", n, TRUE, <<[ahead_by |-> 0]>>)>>)
  ELSE IF env = "create422"
    THEN BranchResult(FALSE, "merge.422", brs,
                      <<Request("repos.compareCommits", n, TRUE, <<[ahead_by |-> 1]>>),
                        Request("pulls.create", n, FALSE, <<>>)>>)
  ELSE IF env \in {"merge409", "error"}
    THEN BranchResult(FALSE, IF env = "merge409" THEN "merge.409" ELSE "merge.failed", brs,
                      <<Request("repos.compareCommits", n, TRUE, <<[ahead_by |-> 1]>>),
                        Request("pulls.create", n, TRUE, <<>>),
                        Request("pulls.merge", n, FALSE, <<>>)>>)
  ELSE BranchResult(TRUE, "", brs,
                    <<Request("repos.compareCommits", n, TRUE, <<[ahead_by |-> 1]>>),
                      Request("pulls.create", n, TRUE, <<>>),
                      Request("pulls.merge", n, TRUE, <<>>)>>)

(***************************************************************************)
(* Reading the repository: GitHubIssueOperations.getRepositoryIssues and   *)
(* IssueHierarchyBuilder.  A listed issue is its number; its record is     *)
(* read from the issue records.                                            *)
(***************************************************************************)
Range(s) == { s[i] : i \in 1..Len(s) }

RECURSIVE DescendingSeq(_)
DescendingSeq(S) ==
  IF S = {} THEN <<>>
  ELSE LET m == CHOOSE x \in S : \A y \in S : x >= y
       IN <<m>> \o DescendingSeq(S \ {m})

\* issues.listForRepo: every issue of the repository, newest first
listForRepo(gh) == DescendingSeq(DOMAIN gh)

getRepositoryIssues(gh, cache) ==
  LET data == listForRepo(gh)
      Active(n) == ~("deleted" \in gh[n].labels) /\ ~(n \in cache)
  IN SelectSeq(data, Active)

KnownTypeLabels == {"Feature", "Bug", "Task", "Enhancement"}

convertGitHubIssue(gh, n) ==
  LET labels == gh[n].labels
      typeLabel == IF labels \cap KnownTypeLabels # {}
                     THEN CHOOSE l \in labels \cap KnownTypeLabels : TRUE
                   ELSE "Task"
      state == IF gh[n].state = "closed" THEN "Done"
               ELSE IF "in-progress" \in labels THEN "In Progress"
               ELSE "To Do"
  IN Issue(n, gh[n].title, gh[n].body, state, typeLabel, <<>>)

RECURSIVE HierarchyNode(_, _, _)
\* the converted issue n with the sub-issues assigned to it, each holding its own
HierarchyNode(gh, valid, n) ==
  [convertGitHubIssue(gh, n) EXCEPT
     !.subIssues = [i \in 1..Len(valid[n]) |-> HierarchyNode(gh, valid, valid[n][i])]]

\* failing: the issues whose sub-issue request fails
buildIssueHierarchy(githubIssues, gh, links, cache, failing) ==
  LET Active(n) == ~("deleted" \in gh[n].labels) /\ ~(n \in cache)
      activeIssues == SelectSeq(githubIssues, Active)
      issueMap == Range(activeIssues)
      valid == [n \in issueMap |->
                  IF n \in failing THEN <<>>
                  ELSE LET Valid(c) == c \in issueMap /\ ~(c \in cache)
                       IN SelectSeq(links[n], Valid)]
      subIssueIds == UNION { Range(valid[n]) : n \in issueMap }
      TopLevel(n) == ~(n \in subIssueIds)
      topLevelNumbers == SelectSeq(activeIssues, TopLevel)
      topLevelIssues == [i \in 1..Len(topLevelNumbers) |->
                           HierarchyNode(gh, valid, topLevelNumbers[i])]
  IN updateIssueStatesRecursively(topLevelIssues)

\* level and parentId as convertGitHubIssue sets them
Unlinked == [level |-> 0, parentId |-> <<>>]

RECURSIVE LinkSubIssues(_, _, _)
\* the loop of buildIssueHierarchy over allIssues: level and parentId of each
\* converted issue once the issues of parents have been processed in turn,
\* each sub-issue taking the level its parent has at that moment
LinkSubIssues(parents, valid, fields) ==
  IF Len(parents) = 0 THEN fields
  ELSE LET parentIssue == Head(parents)
           linked == [n \in DOMAIN fields |->
                        IF n \in Range(valid[parentIssue])
                          THEN [level |-> fields[parentIssue].level + 1,
                                parentId |-> <<parentIssue>>]
                        ELSE fields[n]]
       IN LinkSubIssues(Tail(parents), valid, linked)

RECURSIVE LevelledNode(_, _, _)
\* issue n as the builder returns it, reduced to its id, level, parentId and
\* sub-issues
LevelledNode(valid, fields, n) ==
  [id |-> n, level |-> fields[n].level, parentId |-> fields[n].parentId,
   subIssues |-> [i \in 1..Len(valid[n]) |-> LevelledNode(valid, fields, valid[n][i])]]

\* the forest buildIssueHierarchy returns, with the level and the parentId of
\* its nodes; updateIssueStatesRecursively copies both
buildIssueLevels(githubIssues, gh, links, cache, failing) ==
  LET Active(n) == ~("deleted" \in gh[n].labels) /\ ~(n \in cache)
      activeIssues == SelectSeq(githubIssues, Active)
      issueMap == Range(activeIssues)
      valid == [n \in issueMap |->
                  IF n \in failing THEN <<>>
                  ELSE LET Valid(c) == c \in issueMap /\ ~(c \in cache)
                       IN SelectSeq(links[n], Valid)]
      fields == LinkSubIssues(activeIssues, valid, [n \in issueMap |-> Unlinked])
      subIssueIds == UNION { Range(valid[n]) : n \in issueMap }
      TopLevel(n) == ~(n \in subIssueIds)
      topLevelNumbers == SelectSeq(activeIssues, TopLevel)
  IN [i \in 1..Len(topLevelNumbers) |-> LevelledNode(valid, fields, topLevelNumbers[i])]

\* GitHubSubIssueOperations.listSubIssues: the sub-issues GitHub links to
\* issueNumber, without those labelled deleted; nothing when the request fails
listSubIssues(gh, links, issueNumber, fails) ==
  IF fails THEN <<>>
  ELSE LET data == links[issueNumber]
           Active(n) == ~("deleted" \in gh[n].labels)
           activeSubIssues == SelectSeq(data, Active)
       IN [i \in 1..Len(activeSubIssues) |-> convertGitHubIssue(gh, activeSubIssues[i])]

(***************************************************************************)
(* The frame of a handler of the ProjectSpecification component.           *)
(***************************************************************************)
NoResult == [success |-> TRUE, error |-> "", shouldRollback |-> FALSE]

Frame(kind, pc, closure, issue, originalIssue, branchResult, todo, parent) ==
  [kind |-> kind, pc |-> pc, project |-> closure, issue |-> issue,
   originalIssue |-> originalIssue, optimisticProject |-> <<>>,
   branchResult |-> branchResult, todo |-> todo, parent |-> parent,
   loading |-> FALSE, transitions |-> 0, thrown |-> <<>>]

IdleFrame == Frame("none", "idle", <<>>, <<>>, <<>>, NoResult, <<>>, <<>>)

Toast(type, message) == [type |-> type, message |-> message]

\* no handler is between its start and its end
Quiet == h.pc \in {"idle", "done"}

(***************************************************************************)
(* Initial state: a repository of a few issues, and the snapshot that the  *)
(* hierarchy builder makes of it.                                          *)
(***************************************************************************)
\* parent vector of the initial repository (0: a top-level issue): issue 1
\* holds issue 2, which holds the leaves 3 and 4
InitShape == <<0, 1, 2, 2>>

LeavesOf(p) == { i \in 1..Len(p) : \A j \in 1..Len(p) : p[j] # i }

\* the states of the leaves 3 and 4 in the initial repository
InitLeafStates ==
  { [n \in LeavesOf(InitShape) |-> "To Do"],
    [n \in LeavesOf(InitShape) |-> IF n = 3 THEN "In Progress" ELSE "Done"],
    [n \in LeavesOf(InitShape) |-> IF n = 3 THEN "Done" ELSE "To Do"] }

InitRecord(state) ==
  GitHubRecord("t0", "d0",
               IF state = "Done" THEN "closed" ELSE "open",
               {"Task"} \cup (IF state = "In Progress" THEN {"in-progress"} ELSE {}))

Init ==
  /\ engIn = <<>>
  /\ engOut = <<>>
  /\ engOut2 = <<>>
  /\ engPc = "off"
  /\ \E st \in InitLeafStates :
       LET p == InitShape
       IN /\ github = [n \in 1..Len(p) |->
                         InitRecord(IF n \in LeavesOf(p) THEN st[n] ELSE "To Do")]
          /\ subIssuesOf = [n \in 1..Len(p) |->
                              IdsToSeq({ j \in 1..Len(p) : p[j] = n })]
          /\ branches = { n \in LeavesOf(p) : st[n] = "In Progress" }
  /\ deletedIssuesCache = {}
  /\ project = buildIssueHierarchy(getRepositoryIssues(github, deletedIssuesCache),
                                   github, subIssuesOf, deletedIssuesCache, {})
  /\ h = IdleFrame
  /\ toasts = <<>>
  /\ calls = <<>>
  /\ ops = 0
  /\ suspended = <<>>

(***************************************************************************)
(* handleIssueUpdate (ProjectSpecificationRefactored.tsx) with             *)
(* BranchOperationHandler.  One action per awaited service call.           *)
(***************************************************************************)
\* what the issue modal can submit as title, description and type
EditTexts == { <<"t0", "d0", "Task">>, <<"t1", "d1", "Bug">> }

\* parseInt of an issue id (the temporary id gives NaN, which is no number
\* of the repository)
parseInt(id) == id

GoTo(pc) == [h EXCEPT !.pc = pc]

\* mutant: the handler ends with the loading flag still set
FinishStillLoading(frame) == [frame EXCEPT !.pc = "done"]

\* the finally block of a handler: its end, with the loading flag cleared
Finish(frame) == [frame EXCEPT !.pc = "done", !.loading = FALSE]

\* mutant: a failure that does not ask for the rollback
FailureWithoutFlag(error) ==
  [success |-> FALSE, error |-> error, shouldRollback |-> FALSE]

\* handleStateTransition's catch, and the failures of handleBranchCompletion
\* and handleEmptyBranch
TransitionFailure(error) ==
  [success |-> FALSE, error |-> error, shouldRollback |-> TRUE]

\* mutant: every result of the transition is compensated
AlwaysRollback(branchResult) == TRUE

\* mutant: no result of the transition is compensated
NeverRollback(branchResult) == FALSE

\* the test of handleIssueUpdate on the transition's result
NeedsRollback(branchResult) == ~branchResult.success /\ branchResult.shouldRollback

\* the handler after handleStateTransition returned branchResult
AfterTransition(branchResult, newToasts) ==
  IF NeedsRollback(branchResult)
    THEN /\ h' = [h EXCEPT !.pc = "rollback", !.branchResult = branchResult]
         /\ toasts' = toasts \o newToasts
    ELSE /\ h' = Finish([h EXCEPT !.branchResult = branchResult])
         /\ toasts' = toasts \o newToasts \o <<Toast("success", "update.success")>>

SubmitUpdate ==
  /\ Quiet
  /\ ops < MaxOps
  /\ \E issue \in AllNodes(project), text \in EditTexts, state \in States :
       LET updatedIssue == [issue EXCEPT !.title = text[1], !.description = text[2],
                                         !.type = text[3], !.state = state]
           originalIssue == findIssueInTree(project, updatedIssue.id)
       IN IF ~canChangeIssueState(updatedIssue)
            THEN /\ toasts' = <<Toast("warning", "update.nonleaf")>>
                 /\ h' = Frame("update", "done", project, <<updatedIssue>>, <<>>,
                               NoResult, <<>>, <<>>)
                 /\ UNCHANGED project
          ELSE IF Len(originalIssue) = 0
            THEN /\ toasts' = <<Toast("error", "update.nooriginal")>>
                 /\ h' = Frame("update", "done", project, <<updatedIssue>>, <<>>,
                               NoResult, <<>>, <<>>)
                 /\ UNCHANGED project
          ELSE LET optimisticProject == createOptimisticUpdate(project, updatedIssue)
               IN /\ project' = optimisticProject
                  /\ toasts' = <<>>
                  /\ h' = [Frame("update", "updateIssue", project, <<updatedIssue>>,
                                 originalIssue, NoResult, <<>>, <<>>)
                             EXCEPT !.optimisticProject = optimisticProject,
                                    !.loading = TRUE]
  /\ calls' = <<>>
  /\ ops' = ops + 1
  /\ UNCHANGED <<github, subIssuesOf, branches, deletedIssuesCache>>
  /\ UNCHANGED <<engVars, suspended>>

\* the awaited updateIssue; when it returns, handleStateTransition is called
UpdateIssueStep ==
  /\ h.kind = "update" /\ h.pc = "updateIssue"
  /\ \E env \in UpdateIssueEnvs :
       LET updatedIssue == h.issue[1]
           r == updateIssue(github, deletedIssuesCache, parseInt(updatedIssue.id),
                            ForwardUpdateData(updatedIssue), env)
       IN /\ github' = r.github
          /\ calls' = calls \o r.calls
          /\ IF r.ok
               THEN /\ h' = [h EXCEPT !.pc = "transition", !.transitions = @ + 1]
                    /\ UNCHANGED <<project, toasts>>
               ELSE /\ project' = h.project
                    /\ toasts' = Append(toasts, Toast("error", "update.failed"))
                    /\ h' = Finish(h)
  /\ UNCHANGED <<subIssuesOf, branches, deletedIssuesCache, ops>>
  /\ UNCHANGED <<engVars, suspended>>

\* handleStateTransition for a state without branch work
NoBranchStep ==
  /\ h.kind = "update" /\ h.pc = "transition"
  /\ Len(h.issue[1].subIssues) > 0 \/ h.issue[1].state = "To Do"
  /\ AfterTransition([success |-> TRUE, error |-> "", shouldRollback |-> FALSE], <<>>)
  /\ UNCHANGED <<project, github, subIssuesOf, branches, deletedIssuesCache, calls, ops>>
  /\ UNCHANGED <<engVars, suspended>>

\* handleStateTransition, newState = 'In Progress'
CreateBranchStep ==
  /\ h.kind = "update" /\ h.pc = "transition"
  /\ Len(h.issue[1].subIssues) = 0 /\ h.issue[1].state = "In Progress"
  /\ \E env \in CreateBranchEnvs :
       LET r == createBranch(branches, h.issue[1].id, env)
       IN /\ branches' = r.branches
          /\ calls' = calls \o r.calls
          /\ IF r.ok
               THEN AfterTransition([success |-> TRUE, error |-> "", shouldRollback |-> FALSE],
                                    <<Toast("success", "branch.created")>>)
               ELSE AfterTransition(TransitionFailure(r.error), <<>>)
  /\ UNCHANGED <<project, github, subIssuesOf, deletedIssuesCache, ops>>
  /\ UNCHANGED <<engVars, suspended>>

\* handleBranchCompletion up to the merge, newState = 'Done'
MergeBranchStep ==
  /\ h.kind = "update" /\ h.pc = "transition"
  /\ Len(h.issue[1].subIssues) = 0 /\ h.issue[1].state = "Done"
  /\ \E env \in MergeBranchEnvs :
       LET r == mergeBranch(branches, h.issue[1].id, env)
           text == MessageText(r.error)
       IN /\ calls' = calls \o r.calls
          /\ IF r.ok
               THEN /\ h' = GoTo("deleteMerged")
                    /\ toasts' = Append(toasts, Toast("success", "branch.merged"))
             ELSE IF Includes(text, <<"no", "commits", "to", "merge">>)
                     \/ Includes(text, <<"empty", "branch">>)
               THEN /\ h' = GoTo("deleteEmpty")
                    /\ UNCHANGED toasts
             ELSE AfterTransition(TransitionFailure(r.error), <<>>)
  /\ UNCHANGED <<project, github, subIssuesOf, branches, deletedIssuesCache, ops>>
  /\ UNCHANGED <<engVars, suspended>>

\* mutant: a merged branch that cannot be deleted fails the transition
DeleteFailureIsFatal(r) ==
  IF r.ok THEN [success |-> TRUE, error |-> "", shouldRollback |-> FALSE]
  ELSE [success |-> FALSE, error |-> r.error, shouldRollback |-> TRUE]

\* what handleBranchCompletion returns after the merge succeeded and
\* deleteBranch returned r
MergedResult(r) == [success |-> TRUE, error |-> "", shouldRollback |-> FALSE]

\* handleBranchCompletion after a merge that succeeded
DeleteMergedBranchStep ==
  /\ h.kind = "update" /\ h.pc = "deleteMerged"
  /\ \E env \in DeleteBranchEnvs :
       LET r == deleteBranch(branches, h.issue[1].id, env)
       IN /\ branches' = r.branches
          /\ calls' = calls \o r.calls
          /\ AfterTransition(MergedResult(r),
                             IF r.ok THEN <<Toast("success", "branch.deleted")>>
                             ELSE <<Toast("warning", "branch.notdeleted")>>)
  /\ UNCHANGED <<project, github, subIssuesOf, deletedIssuesCache, ops>>
  /\ UNCHANGED <<engVars, suspended>>

\* handleEmptyBranch
DeleteEmptyBranchStep ==
  /\ h.kind = "update" /\ h.pc = "deleteEmpty"
  /\ \E env \in DeleteBranchEnvs :
       LET r == deleteBranch(branches, h.issue[1].id, env)
       IN /\ branches' = r.branches
          /\ calls' = calls \o r.calls
          /\ IF r.ok
               THEN AfterTransition([success |-> TRUE, error |-> "", shouldRollback |-> FALSE],
                                    <<Toast("info", "branch.emptydeleted")>>)
               ELSE AfterTransition(TransitionFailure(r.error), <<>>)
  /\ UNCHANGED <<project, github, subIssuesOf, deletedIssuesCache, ops>>
  /\ UNCHANGED <<engVars, suspended>>

\* mutant: a failed rollback is reported like one that succeeded
AlwaysRevertedToast(ok) == Toast("error", "update.reverted")

\* the notification after rollbackIssueState returned (ok) or threw
RollbackToast(ok) ==
  IF ok THEN Toast("error", "update.reverted")
  ELSE Toast("error", "update.rollbackfailed")

\* the rollback of handleIssueUpdate
RollbackStep ==
  /\ h.kind = "update" /\ h.pc = "rollback"
  /\ \E env \in UpdateIssueEnvs :
       LET r == rollbackIssueState(github, deletedIssuesCache, parseInt(h.issue[1].id),
                                   h.originalIssue[1], env)
       IN /\ github' = r.github
          /\ calls' = calls \o r.calls
          /\ project' = h.project
          /\ toasts' = Append(toasts, RollbackToast(r.ok))
          /\ h' = Finish(h)
  /\ UNCHANGED <<subIssuesOf, branches, deletedIssuesCache, ops>>
  /\ UNCHANGED <<engVars, suspended>>

UpdateSaga ==
  \/ SubmitUpdate
  \/ UpdateIssueStep
  \/ NoBranchStep
  \/ CreateBranchStep
  \/ MergeBranchStep
  \/ DeleteMergedBranchStep
  \/ DeleteEmptyBranchStep
  \/ RollbackStep

(***************************************************************************)
(* Creating issues: GitHubIssueOperations.createIssue and                  *)
(* GitHubSubIssueOperations.createSubIssue.                                *)
(***************************************************************************)
\* the number GitHub gives the next issue
NextNumber(gh) == Cardinality(DOMAIN gh) + 1

WithIssue(gh, n, record) ==
  [m \in DOMAIN gh \cup {n} |-> IF m = n THEN record ELSE gh[m]]

CreateResult(ok, number, gh, links, cache, reqs) ==
  [ok |-> ok, number |-> number, github |-> gh, subIssuesOf |-> links,
   deletedIssuesCache |-> cache, calls |-> reqs]

CreateIssueEnvs == {"ok", "create_fails"}

createIssue(gh, links, cache, title, body, labels, env) ==
  LET n == NextNumber(gh)
  IN IF env = "create_fails"
       THEN CreateResult(FALSE, n, gh, links, cache,
                         <<Request("issues.create", n, FALSE, <<>>)>>)
     ELSE CreateResult(TRUE, n,
                       WithIssue(gh, n, GitHubRecord(title, body, "open", labels)),
                       WithIssue(links, n, <<>>), cache,
                       <<Request("issues.create", n, TRUE, <<>>)>>)

\* the message of the error createIssue throws, for a request that failed with
\* a server error
createIssueError(env) ==
  IF env = "create_fails"
    THEN <<"Failed", "to", "create", "issue", ":", "Server", "Error">>
  ELSE <<>>

CreateSubIssueEnvs ==
  {"ok", "validate_fails", "create_fails", "link_fails", "link_and_rollback_fail"}

\* mutant: an issue that could not be linked is left as it was created
createSubIssueLeavesOrphan(gh, links, cache, parentNumber, title, body, labels, env) ==
  LET n == NextNumber(gh)
      validate == Request("issues.get", parentNumber, TRUE, <<>>)
      created == WithIssue(gh, n, GitHubRecord(title, body, "open", labels))
      createdLinks == WithIssue(links, n, <<>>)
  IN IF parentNumber \notin DOMAIN gh \/ env = "validate_fails"
       THEN CreateResult(FALSE, n, gh, links, cache,
                         <<Request("issues.get", parentNumber, FALSE, <<>>)>>)
     ELSE IF parentNumber \in cache \/ "deleted" \in gh[parentNumber].labels
       THEN CreateResult(FALSE, n, gh, links, cache, <<validate>>)
     ELSE IF env = "create_fails"
       THEN CreateResult(FALSE, n, gh, links, cache,
                         <<validate, Request("issues.create", n, FALSE, <<>>)>>)
     ELSE IF env = "link_fails"
       THEN CreateResult(FALSE, n, created, createdLinks, cache,
                         <<validate, Request("issues.create", n, TRUE, <<>>),
                           Request("sub_issues.add", parentNumber, FALSE, <<>>),
                           Request("issues.update", n, TRUE, <<>>)>>)
     ELSE IF env = "link_and_rollback_fail"
       THEN CreateResult(FALSE, n, created, createdLinks, cache,
                         <<validate, Request("issues.create", n, TRUE, <<>>),
                           Request("sub_issues.add", parentNumber, FALSE, <<>>),
                           Request("issues.update", n, FALSE, <<>>)>>)
     ELSE CreateResult(TRUE, n, created,
                       [createdLinks EXCEPT ![parentNumber] = Append(@, n)], cache,
                       <<validate, Request("issues.create", n, TRUE, <<>>),
                         Request("sub_issues.add", parentNumber, TRUE, <<>>),
                         Request("sub_issues.list", parentNumber, TRUE, <<>>)>>)

\* the message of the error createSubIssue throws; a request that fails does
\* so with a server error
createSubIssueError(gh, cache, parentNumber, env) ==
  LET n == NextNumber(gh)
      failed == <<"Failed", "to", "create", "sub-issue", ":">>
      parent == <<"Parent", "issue", "#", ToString(parentNumber)>>
  IN IF parentNumber \notin DOMAIN gh
       THEN failed \o parent
              \o <<"not", "found", "or", "repository", "not", "accessible">>
     ELSE IF env = "validate_fails"
       THEN failed \o <<"Failed", "to", "validate">> \o parent
              \o <<":", "Server", "Error">>
     ELSE IF parentNumber \in cache
       THEN failed \o <<"Cannot", "create", "sub-issue", ":">> \o parent
              \o <<"is", "marked", "as", "deleted">>
     ELSE IF "deleted" \in gh[parentNumber].labels
       THEN failed \o <<"Cannot", "create", "sub-issue", ":">> \o parent
              \o <<"is", "deleted">>
     ELSE IF env \in {"create_fails", "link_fails"}
       THEN failed \o <<"Server", "Error">>
     ELSE IF env = "link_and_rollback_fail"
       THEN <<"Sub-issue", "creation", "failed", "and", "rollback", "failed", ".",
              "Orphaned", "issue", "#", ToString(n), "was", "created", "but", "not",
              "linked", "as", "sub-issue", ".", "Please", "manually", "delete", "it",
              ".", "Original", "error", ":", "Server", "Error">>
     ELSE <<>>

createSubIssue(gh, links, cache, parentNumber, title, body, labels, env) ==
  LET n == NextNumber(gh)
      validate == Request("issues.get", parentNumber, TRUE, <<>>)
      created == WithIssue(gh, n, GitHubRecord(title, body, "open", labels))
      createdLinks == WithIssue(links, n, <<>>)
  IN IF parentNumber \notin DOMAIN gh \/ env = "validate_fails"
       THEN CreateResult(FALSE, n, gh, links, cache,
                         <<Request("issues.get", parentNumber, FALSE, <<>>)>>)
     ELSE IF parentNumber \in cache \/ "deleted" \in gh[parentNumber].labels
       THEN CreateResult(FALSE, n, gh, links, cache, <<validate>>)
     ELSE IF env = "create_fails"
       THEN CreateResult(FALSE, n, gh, links, cache,
                         <<validate, Request("issues.create", n, FALSE, <<>>)>>)
     ELSE IF env = "link_fails"
       \* softDeleteIssue of the orphan succeeds
       THEN CreateResult(FALSE, n,
                         [created EXCEPT ![n].state = "closed", ![n].labels = {"deleted"}],
                         createdLinks, cache \cup {n},
                         <<validate, Request("issues.create", n, TRUE, <<>>),
                           Request("sub_issues.add", parentNumber, FALSE, <<>>),
                           Request("issues.update", n, TRUE, <<>>)>>)
     ELSE IF env = "link_and_rollback_fail"
       THEN CreateResult(FALSE, n, created, createdLinks, cache,
                         <<validate, Request("issues.create", n, TRUE, <<>>),
                           Request("sub_issues.add", parentNumber, FALSE, <<>>),
                           Request("issues.update", n, FALSE, <<>>)>>)
     ELSE CreateResult(TRUE, n, created,
                       [createdLinks EXCEPT ![parentNumber] = Append(@, n)], cache,
                       <<validate, Request("issues.create", n, TRUE, <<>>),
                         Request("sub_issues.add", parentNumber, TRUE, <<>>),
                         Request("sub_issues.list", parentNumber, TRUE, <<>>)>>)

(***************************************************************************)
(* handleIssueCreate                                                       *)
(***************************************************************************)
\* 'temp-' + Date.now(): an id that is no issue number
TempId == 0

\* what the issue modal submits as title, description and type of a new issue
CreateTexts == { <<"t1", "d1", "Bug">> }

SubmitCreate ==
  /\ Quiet
  /\ ops < MaxOps
  /\ NextNumber(github) <= MaxIssueNumber
  /\ \E parent \in {<<>>} \cup { <<n>> : n \in AllNodes(project) },
        text \in CreateTexts, state \in States :
       LET optimisticIssue == Issue(TempId, text[1], text[2], state, text[3], <<>>)
           optimisticProject ==
             createOptimisticCreation(project, optimisticIssue,
                                      IF Len(parent) > 0 THEN <<parent[1].id>> ELSE <<>>)
       IN /\ project' = optimisticProject
          /\ h' = [Frame("create", "create", project, <<optimisticIssue>>, <<>>,
                         NoResult, <<>>, parent)
                     EXCEPT !.optimisticProject = optimisticProject,
                            !.loading = TRUE]
  /\ toasts' = <<>>
  /\ calls' = <<>>
  /\ ops' = ops + 1
  /\ UNCHANGED <<github, subIssuesOf, branches, deletedIssuesCache>>
  /\ UNCHANGED <<engVars, suspended>>

\* mutant: the catch leaves the optimistic project published
KeepOptimisticProject(frame) == frame.optimisticProject

\* the project the catch of handleIssueCreate publishes: the one of its closure
RevertedProject(frame) == frame.project

\* the awaited createSubIssue or createIssue, and what follows it
CreateStep ==
  /\ h.kind = "create" /\ h.pc = "create"
  /\ \E env \in CreateSubIssueEnvs :
       /\ Len(h.parent) = 0 => env \in CreateIssueEnvs
       /\ LET newIssue == h.issue[1]
              r == IF Len(h.parent) > 0
                     THEN createSubIssue(github, subIssuesOf, deletedIssuesCache,
                                         parseInt(h.parent[1].id), newIssue.title,
                                         newIssue.description, {newIssue.type}, env)
                   ELSE createIssue(github, subIssuesOf, deletedIssuesCache,
                                    newIssue.title, newIssue.description,
                                    {newIssue.type}, env)
              thrown == IF Len(h.parent) > 0
                          THEN createSubIssueError(github, deletedIssuesCache,
                                                   parseInt(h.parent[1].id), env)
                        ELSE createIssueError(env)
              realIssue == [newIssue EXCEPT !.id = r.number, !.subIssues = <<>>]
          IN /\ github' = r.github
             /\ subIssuesOf' = r.subIssuesOf
             /\ deletedIssuesCache' = r.deletedIssuesCache
             /\ calls' = calls \o r.calls
             /\ IF r.ok
                  THEN /\ project' = replaceOptimisticIssue(h.optimisticProject,
                                                            TempId, realIssue)
                       /\ toasts' = Append(toasts, Toast("success", "create.success"))
                  ELSE /\ project' = RevertedProject(h)
                       /\ toasts' = Append(toasts, Toast("error", "create.failed"))
             /\ h' = Finish([h EXCEPT !.thrown = thrown])
  /\ UNCHANGED <<branches, ops>>
  /\ UNCHANGED <<engVars, suspended>>

CreateSaga == SubmitCreate \/ CreateStep

(***************************************************************************)
(* GitHubIssueOperations.deleteIssue, in two parts: up to its first        *)
(* request, and from GitHub's answers on.                                  *)
(***************************************************************************)
\* deleteIssue up to the request of ensureDeletedLabelExists
deleteIssueBegin(cache, issueNumber) == cache \cup {issueNumber}

DeleteIssueEnvs == {"ok", "label_fails", "get_fails", "update_fails", "label_missing"}

DeleteResult(ok, gh, cache, reqs) ==
  [ok |-> ok, github |-> gh, deletedIssuesCache |-> cache, calls |-> reqs]

\* mutant: a failed delete leaves the issue in the cache
deleteIssueKeepsTombstone(gh, cache, issueNumber, env) ==
  IF issueNumber \in DOMAIN gh /\ env = "ok"
    THEN DeleteResult(TRUE,
                      [gh EXCEPT ![issueNumber].state = "closed",
                                 ![issueNumber].labels = @ \cup {"deleted"}],
                      cache,
                      <<Request("issues.getLabel", issueNumber, TRUE, <<>>),
                        Request("issues.get", issueNumber, TRUE, <<>>),
                        Request("issues.update", issueNumber, TRUE, <<>>)>>)
  ELSE DeleteResult(FALSE, gh, cache,
                    <<Request("issues.getLabel", issueNumber, FALSE, <<>>)>>)

deleteIssueEnd(gh, cache, issueNumber, env) ==
  LET getLabel == Request("issues.getLabel", issueNumber, TRUE, <<>>)
      get == Request("issues.get", issueNumber, TRUE, <<>>)
      rolledBack == cache \ {issueNumber}
  IN IF env = "label_fails"
       THEN DeleteResult(FALSE, gh, rolledBack,
                         <<Request("issues.getLabel", issueNumber, FALSE, <<>>)>>)
     ELSE IF issueNumber \notin DOMAIN gh \/ env = "get_fails"
       THEN DeleteResult(FALSE, gh, rolledBack,
                         <<getLabel, Request("issues.get", issueNumber, FALSE, <<>>)>>)
     ELSE LET currentLabels == gh[issueNumber].labels \cup {"deleted"}
              data == [state |-> "closed", labels |-> currentLabels]
          IN IF env = "update_fails"
               THEN DeleteResult(FALSE, gh, rolledBack,
                                 <<getLabel, get,
                                   Request("issues.update", issueNumber, FALSE, <<data>>)>>)
             ELSE IF env = "label_missing"
               \* GitHub closes the issue and answers without the label
               THEN DeleteResult(FALSE, [gh EXCEPT ![issueNumber].state = "closed"],
                                 rolledBack,
                                 <<getLabel, get,
                                   Request("issues.update", issueNumber, TRUE, <<data>>)>>)
             ELSE DeleteResult(TRUE,
                               [gh EXCEPT ![issueNumber].state = "closed",
                                          ![issueNumber].labels = currentLabels],
                               cache,
                               <<getLabel, get,
                                 Request("issues.update", issueNumber, TRUE, <<data>>)>>)

(***************************************************************************)
(* handleIssueDelete                                                       *)
(***************************************************************************)
RECURSIVE FlattenSeq(_)
FlattenSeq(ss) == IF Len(ss) = 0 THEN <<>> ELSE Head(ss) \o FlattenSeq(Tail(ss))

RECURSIVE ParentFirstOrder(_)
\* mutant: the issue is deleted before its sub-issues
ParentFirstOrder(issue) ==
  <<issue.id>>
    \o FlattenSeq([i \in 1..Len(issue.subIssues) |-> ParentFirstOrder(issue.subIssues[i])])

\* mutant: the sub-issues are left alone
OnlyTheIssue(issue) == <<issue.id>>

RECURSIVE deleteIssueRecursively(_)
\* the ids in the order in which deleteIssueRecursively calls deleteIssue
deleteIssueRecursively(issue) ==
  FlattenSeq([i \in 1..Len(issue.subIssues) |->
                deleteIssueRecursively(issue.subIssues[i])])
    \o <<issue.id>>

\* the handler up to its first await: the success toast, and the first
\* deleteIssue up to its first request
SubmitDelete ==
  /\ Quiet
  /\ ops < MaxOps
  /\ \E issueToDelete \in AllNodes(project) :
       LET todo == deleteIssueRecursively(issueToDelete)
       IN /\ h' = Frame("delete", "deleteIssue", project, <<issueToDelete>>, <<>>,
                        NoResult, todo, <<>>)
          /\ deletedIssuesCache' = deleteIssueBegin(deletedIssuesCache, parseInt(todo[1]))
  /\ toasts' = <<Toast("success", "delete.success")>>
  /\ calls' = <<>>
  /\ ops' = ops + 1
  /\ UNCHANGED <<project, github, subIssuesOf, branches>>
  /\ UNCHANGED <<engVars, suspended>>

\* mutant: a failure of the background task is shown as an error
SurfacedFailureToasts == <<Toast("error", "delete.failed")>>

\* the notifications of the catch of the background task, which only writes
\* to the console
BackgroundFailureToasts == <<>>

\* GitHub answers the deleteIssue in flight; then the next deleteIssue runs
\* up to its first request, or the issue list is requested
DeleteIssueStep ==
  /\ h.kind = "delete" /\ h.pc = "deleteIssue"
  /\ \E env \in DeleteIssueEnvs :
       LET r == deleteIssueEnd(github, deletedIssuesCache, parseInt(h.todo[1]), env)
           rest == Tail(h.todo)
       IN /\ github' = r.github
          /\ calls' = calls \o r.calls
          /\ IF ~r.ok
               THEN /\ deletedIssuesCache' = r.deletedIssuesCache
                    /\ toasts' = toasts \o BackgroundFailureToasts
                    /\ h' = GoTo("done")
             ELSE IF Len(rest) > 0
               THEN /\ deletedIssuesCache' =
                         deleteIssueBegin(r.deletedIssuesCache, parseInt(rest[1]))
                    /\ UNCHANGED toasts
                    /\ h' = [h EXCEPT !.todo = rest]
             ELSE /\ deletedIssuesCache' = r.deletedIssuesCache
                  /\ UNCHANGED toasts
                  /\ h' = [h EXCEPT !.todo = rest, !.pc = "sync"]
  /\ UNCHANGED <<project, subIssuesOf, branches, ops>>
  /\ UNCHANGED <<engVars, suspended>>

SyncEnvs == {"ok", "list_fails"}

\* getRepositoryIssues and buildIssueHierarchy of the background task
SyncStep ==
  /\ h.kind = "delete" /\ h.pc = "sync"
  /\ \E env \in SyncEnvs :
       IF env = "list_fails"
         THEN /\ calls' = Append(calls, Request("issues.listForRepo", 0, FALSE, <<>>))
              /\ toasts' = toasts \o BackgroundFailureToasts
              /\ UNCHANGED project
       ELSE LET githubIssues == getRepositoryIssues(github, deletedIssuesCache)
                parents == { n \in Range(githubIssues) : Len(subIssuesOf[n]) > 0 }
            IN \E failing \in SUBSET parents :
                 /\ UNCHANGED toasts
                 /\ project' = buildIssueHierarchy(githubIssues, github, subIssuesOf,
                                                   deletedIssuesCache, failing)
                 /\ calls' = calls
                      \o <<Request("issues.listForRepo", 0, TRUE, <<>>)>>
                      \o [i \in 1..Len(githubIssues) |->
                            Request("sub_issues.list", githubIssues[i],
                                    githubIssues[i] \notin failing, <<>>)]
  /\ h' = GoTo("done")
  /\ UNCHANGED <<github, subIssuesOf, branches, deletedIssuesCache, ops>>
  /\ UNCHANGED <<engVars, suspended>>

DeleteSaga == SubmitDelete \/ DeleteIssueStep \/ SyncStep

(***************************************************************************)
(* loadProjectFromRepository: the issues are listed, in whatever order     *)
(* GitHub returns them, and the hierarchy builder makes the project of     *)
(* them.  The frame keeps the forest with its levels and parentIds.        *)
(***************************************************************************)
\* the sequences that hold each element of S once
Orders(S) ==
  { s \in [1..Cardinality(S) -> S] : \A i, j \in 1..Cardinality(S) : s[i] = s[j] => i = j }

loadProjectFromRepository ==
  /\ Quiet
  /\ ops < MaxOps
  /\ \/ /\ calls' = <<Request("issues.listForRepo", 0, FALSE, <<>>)>>
        /\ h' = Frame("load", "done", project, <<>>, <<>>, NoResult, <<>>, <<>>)
        /\ UNCHANGED project
     \/ \E data \in Orders(DOMAIN github) :
          LET Active(n) == ~("deleted" \in github[n].labels)
                            /\ ~(n \in deletedIssuesCache)
              githubIssues == SelectSeq(data, Active)
              parents == { n \in Range(githubIssues) : Len(subIssuesOf[n]) > 0 }
          IN \E failing \in SUBSET parents :
               /\ project' = buildIssueHierarchy(githubIssues, github, subIssuesOf,
                                                 deletedIssuesCache, failing)
               /\ h' = Frame("load", "done", project,
                             buildIssueLevels(githubIssues, github, subIssuesOf,
                                              deletedIssuesCache, failing),
                             <<>>, NoResult, <<>>, <<>>)
               /\ calls' = <<Request("issues.listForRepo", 0, TRUE, githubIssues)>>
                    \o [i \in 1..Len(githubIssues) |->
                          Request("sub_issues.list", githubIssues[i],
                                  githubIssues[i] \notin failing, <<>>)]
  /\ toasts' = <<>>
  /\ ops' = ops + 1
  /\ UNCHANGED <<github, subIssuesOf, branches, deletedIssuesCache>>
  /\ UNCHANGED <<engVars, suspended>>

NextHierarchy == DeleteSaga \/ loadProjectFromRepository

SpecHierarchy == Init /\ [][NextHierarchy]_vars

(***************************************************************************)
(* The operations on the issue tree applied to bounded forests.  engIn is  *)
(* the forest handed to the operation, as it is now; engOut2 is its value  *)
(* before the last call, engOut the result of the call, h the call.        *)
(***************************************************************************)
TreeForests ==
  UNION { { BuildForest(0, p, [i \in 1..n |-> "To Do"], n) : p \in ParentVectors(n) } :
          n \in 1..MaxNodes }

\* the ids of a forest, and one id that is not in it
TreeTargets(issues) == 1..(Len(NodeSeq(issues)) + 1)

TreeCall(op, issue, target) == [kind |-> op, issue |-> issue, target |-> target]

InitTree ==
  /\ engIn \in TreeForests
  /\ engOut = <<>>
  /\ engOut2 = <<>>
  /\ engPc = "in"
  /\ project = <<>>
  /\ github = <<>>
  /\ subIssuesOf = <<>>
  /\ branches = {}
  /\ deletedIssuesCache = {}
  /\ h = TreeCall("none", <<>>, 0)
  /\ toasts = <<>>
  /\ calls = <<>>
  /\ ops = 0
  /\ suspended = <<>>

TreeUpdate ==
  /\ \E target \in TreeTargets(engIn), text \in EditTexts :
       LET found == findIssueInTree(engIn, target)
           updatedIssue ==
             IF Len(found) > 0
               THEN [found[1] EXCEPT !.title = text[1], !.description = text[2],
                                     !.type = text[3], !.state = "Done"]
             ELSE Issue(target, text[1], text[2], "Done", text[3], <<>>)
       IN /\ engOut' = updateIssueInTree(engIn, updatedIssue)
          /\ h' = TreeCall("updateIssueInTree", <<updatedIssue>>, target)
  /\ engOut2' = engIn
  /\ engPc' = "called"
  /\ UNCHANGED engIn
  /\ UNCHANGED <<project, github, subIssuesOf, branches, deletedIssuesCache,
                 toasts, calls, ops, suspended>>

TreeAdd ==
  /\ \E parentId \in TreeTargets(engIn) :
       LET newIssue == Issue(TempId, "t1", "d1", "To Do", "Bug", <<>>)
       IN /\ engOut' = addIssueToParent(engIn, newIssue, parentId)
          /\ h' = TreeCall("addIssueToParent", <<newIssue>>, parentId)
  /\ engOut2' = engIn
  /\ engPc' = "called"
  /\ UNCHANGED engIn
  /\ UNCHANGED <<project, github, subIssuesOf, branches, deletedIssuesCache,
                 toasts, calls, ops, suspended>>

TreeReplace ==
  /\ \E oldId \in TreeTargets(engIn) :
       LET newIssue == Issue(TempId, "t1", "d1", "To Do", "Bug", <<>>)
       IN /\ engOut' = replaceIssueInTree(engIn, oldId, newIssue)
          /\ h' = TreeCall("replaceIssueInTree", <<newIssue>>, oldId)
  /\ engOut2' = engIn
  /\ engPc' = "called"
  /\ UNCHANGED engIn
  /\ UNCHANGED <<project, github, subIssuesOf, branches, deletedIssuesCache,
                 toasts, calls, ops, suspended>>

TreeRemove ==
  /\ \E issueToDeleteId \in TreeTargets(engIn) :
       LET r == removeIssueFromTree(engIn, issueToDeleteId)
       IN /\ engOut' = r.result
          /\ engIn' = r.input
          /\ h' = TreeCall("removeIssueFromTree", <<>>, issueToDeleteId)
  /\ engOut2' = engIn
  /\ engPc' = "called"
  /\ UNCHANGED <<project, github, subIssuesOf, branches, deletedIssuesCache,
                 toasts, calls, ops, suspended>>

TreeFind ==
  /\ \E targetId \in TreeTargets(engIn) :
       /\ engOut' = findIssueInTree(engIn, targetId)
       /\ h' = TreeCall("findIssueInTree", <<>>, targetId)
  /\ engOut2' = engIn
  /\ engPc' = "called"
  /\ UNCHANGED engIn
  /\ UNCHANGED <<project, github, subIssuesOf, branches, deletedIssuesCache,
                 toasts, calls, ops, suspended>>

NextTree == TreeUpdate \/ TreeAdd \/ TreeReplace \/ TreeRemove \/ TreeFind

SpecTree == InitTree /\ [][NextTree]_vars

(***************************************************************************)
(* GitHubCacheManager.  The answer of issues.listForRepo is a sequence of  *)
(* listed issues, each with its number and the labels the list shows.      *)
(***************************************************************************)
ListedIssue(number, labels) == [number |-> number, labels |-> labels]

Inconsistency(issueNumber, inCache, hasDeletedLabel) ==
  [issueNumber |-> issueNumber, inCache |-> inCache, hasDeletedLabel |-> hasDeletedLabel]

\* the inconsistencies are kept as a set: each is about another issue, so the
\* order in which the sync handles them does not matter
verifyDeletedCacheConsistency(cache, allGitHubIssues) ==
  LET Found(c) == { g \in Range(allGitHubIssues) : g.number = c }
      Unlabelled(c) == \A g \in Found(c) : ~("deleted" \in g.labels)
      cachedOnly == { Inconsistency(c, TRUE, FALSE) : c \in { c \in cache : Unlabelled(c) } }
      labelledOnly == { Inconsistency(g.number, FALSE, TRUE) :
                          g \in { g \in Range(allGitHubIssues) :
                                    "deleted" \in g.labels /\ g.number \notin cache } }
      inconsistencies == cachedOnly \cup labelledOnly
  IN [consistent |-> inconsistencies = {}, inconsistencies |-> inconsistencies]

\* mutant: the sync adds the labelled issues and keeps every cached one
syncOnlyAdds(cache, allGitHubIssues) ==
  cache \cup { g.number : g \in { g \in Range(allGitHubIssues) : "deleted" \in g.labels } }

\* mutant: the sync removes every cached issue and adds every other one
syncFlipsCache(cache, allGitHubIssues) ==
  { g.number : g \in Range(allGitHubIssues) } \ cache

\* the cache after syncDeletedCacheWithGitHub
syncDeletedCacheWithGitHub(cache, allGitHubIssues) ==
  LET verification == verifyDeletedCacheConsistency(cache, allGitHubIssues)
      removed == { i.issueNumber : i \in { i \in verification.inconsistencies :
                                            i.inCache /\ ~i.hasDeletedLabel } }
      added == { i.issueNumber : i \in { i \in verification.inconsistencies :
                                          ~i.inCache /\ i.hasDeletedLabel } }
  IN IF verification.consistent THEN cache
     ELSE (cache \ removed) \cup added

\* what issues.listForRepo may answer: at most one issue is not listed yet, and
\* for some of the issues labelled deleted the list does not show the label yet
ObservedLists(gh) ==
  LET labelled == { n \in DOMAIN gh : "deleted" \in gh[n].labels }
      View(missing, stale) ==
        LET numbers == DescendingSeq(DOMAIN gh \ missing)
        IN [i \in 1..Len(numbers) |->
              ListedIssue(numbers[i],
                          IF numbers[i] \in stale THEN gh[numbers[i]].labels \ {"deleted"}
                          ELSE gh[numbers[i]].labels)]
  IN { View(missing, stale) :
         missing \in { m \in SUBSET DOMAIN gh : Cardinality(m) <= 1 },
         stale \in SUBSET labelled }

\* a call of syncDeletedCacheWithGitHub, up to its return.  The frame keeps
\* the cache as the call found it.
SyncDeletedCache ==
  /\ Quiet
  /\ ops < MaxOps
  /\ h' = Frame("syncCache", "done", project, <<>>, <<>>, NoResult,
                IdsToSeq(deletedIssuesCache), <<>>)
  /\ \/ /\ calls' = <<Request("issues.listForRepo", 0, FALSE, <<>>)>>
        /\ UNCHANGED deletedIssuesCache
     \/ \E allGitHubIssues \in ObservedLists(github) :
          /\ calls' = <<Request("issues.listForRepo", 0, TRUE, allGitHubIssues)>>
          /\ deletedIssuesCache' =
               syncDeletedCacheWithGitHub(deletedIssuesCache, allGitHubIssues)
  /\ toasts' = <<>>
  /\ ops' = ops + 1
  /\ UNCHANGED <<project, github, subIssuesOf, branches>>
  /\ UNCHANGED <<engVars, suspended>>

\* the filter of getRepositoryIssues on the answer of issues.listForRepo
activeIssues(data, cache) ==
  LET Active(issue) == ~("deleted" \in issue.labels) /\ ~(issue.number \in cache)
  IN SelectSeq(data, Active)

\* a call of getRepositoryIssues, up to its return; the log keeps what it
\* returned
ReadRepositoryIssues ==
  /\ Quiet
  /\ h' = Frame("listRead", "done", project, <<>>, <<>>, NoResult, <<>>, <<>>)
  /\ \/ calls' = <<Request("issues.listForRepo", 0, FALSE, <<>>)>>
     \/ \E data \in ObservedLists(github) :
          calls' = <<Request("issues.listForRepo", 0, TRUE,
                             activeIssues(data, deletedIssuesCache))>>
  /\ toasts' = <<>>
  /\ UNCHANGED <<project, github, subIssuesOf, branches, deletedIssuesCache, ops>>
  /\ UNCHANGED <<engVars, suspended>>

\* a session that starts on a repository where earlier sessions have deleted
\* some of the leaves: the cache is empty, the labels are there
InitCache ==
  /\ engIn = <<>>
  /\ engOut = <<>>
  /\ engOut2 = <<>>
  /\ engPc = "off"
  /\ \E gone \in SUBSET LeavesOf(InitShape) :
       LET p == InitShape
           record == InitRecord("To Do")
       IN github = [n \in 1..Len(p) |->
                      IF n \in gone
                        THEN [record EXCEPT !.state = "closed",
                                            !.labels = @ \cup {"deleted"}]
                      ELSE record]
  /\ subIssuesOf = [n \in 1..Len(InitShape) |->
                      IdsToSeq({ j \in 1..Len(InitShape) : InitShape[j] = n })]
  /\ branches = {}
  /\ deletedIssuesCache = {}
  /\ project = buildIssueHierarchy(getRepositoryIssues(github, deletedIssuesCache),
                                   github, subIssuesOf, deletedIssuesCache, {})
  /\ h = IdleFrame
  /\ toasts = <<>>
  /\ calls = <<>>
  /\ ops = 0
  /\ suspended = <<>>

\* the deletes and the syncs of the cache
NextCache == DeleteSaga \/ SyncDeletedCache

Next == UpdateSaga \/ CreateSaga \/ DeleteSaga

(***************************************************************************)
(* Handlers that overlap.  A handler that waits for a call it awaits gives *)
(* way to the event loop: another handler can be started on the project    *)
(* published by then and runs to its end; the waiting handler then goes on *)
(* with its own closure.                                                   *)
(***************************************************************************)
Suspend ==
  /\ ~Quiet
  /\ suspended = <<>>
  /\ ops < MaxOps
  /\ suspended' = <<h>>
  /\ h' = IdleFrame
  /\ UNCHANGED <<project, github, subIssuesOf, branches, deletedIssuesCache,
                 toasts, calls, ops>>
  /\ UNCHANGED engVars

Resume ==
  /\ Quiet
  /\ suspended # <<>>
  /\ h' = suspended[1]
  /\ suspended' = <<>>
  /\ UNCHANGED <<project, github, subIssuesOf, branches, deletedIssuesCache,
                 toasts, calls, ops>>
  /\ UNCHANGED engVars

NextOverlap == UpdateSaga \/ CreateSaga \/ DeleteSaga \/ Suspend \/ Resume

\* the update handler alone
NextUpdate == UpdateSaga

Spec == Init /\ [][Next]_vars

SpecUpdate == Init /\ [][NextUpdate]_vars

\* the handlers, one of which may run while another waits
SpecOverlap == Init /\ [][NextOverlap]_vars

\* an update and a delete whose handlers overlap
NextTombstone == UpdateSaga \/ DeleteSaga \/ Suspend \/ Resume

SpecTombstone == Init /\ [][NextTombstone]_vars

SpecCache == InitCache /\ [][NextCache]_vars

\* deletes, syncs of the cache and reads of the repository, in a session that
\* starts on a repository without deleted issues
NextReads == DeleteSaga \/ SyncDeletedCache \/ ReadRepositoryIssues

SpecReads == Init /\ [][NextReads]_vars

\* the create handler alone
SpecCreate == Init /\ [][CreateSaga]_vars

\* creations, and reads of the issue list between them
NextCreateReads == CreateSaga \/ ReadRepositoryIssues

SpecCreateReads == Init /\ [][NextCreateReads]_vars

\* every awaited call of the update handler returns
UpdateCallsReturn ==
  /\ WF_vars(UpdateIssueStep)
  /\ WF_vars(NoBranchStep)
  /\ WF_vars(CreateBranchStep)
  /\ WF_vars(MergeBranchStep)
  /\ WF_vars(DeleteMergedBranchStep)
  /\ WF_vars(DeleteEmptyBranchStep)
  /\ WF_vars(RollbackStep)

SpecUpdateLive == SpecUpdate /\ UpdateCallsReturn

(***************************************************************************)
(* Properties of the sagas                                                 *)
(***************************************************************************)
SubtreeIds(issue) == { n.id : n \in AllNodes(<<issue>>) }

MarkedDeleted(n) == n \in DOMAIN github /\ "deleted" \in github[n].labels

LastToast == toasts[Len(toasts)]

\* an update saga has ended whose issue update succeeded and whose branch
\* creation failed on the base branch
BaseBranchMissing ==
  /\ h.kind = "update" /\ h.pc = "done"
  /\ Len(calls) >= 3
  /\ calls[2].api = "issues.update" /\ calls[2].ok
  /\ calls[3].api = "git.getRef" /\ ~calls[3].ok

\* the record derived from an item of the snapshot
RecordOfItem(item) ==
  [title |-> item.title,
   body |-> item.description,
   state |-> IF item.state = "Done" THEN "closed" ELSE "open",
   labels |-> IF item.state = "In Progress" THEN {item.type, "in-progress"}
              ELSE {item.type}]

\* C1: when the issue update succeeded and the branch creation failed on a
\* missing base branch, the compensating update of the issue is issued
\* after the failure; the update it sends carries title, description,
\* open/closed state and labels derived from the item before the change, and
\* once it is applied the record holds these values; the saga ends with an
\* error notification and no success notification, and the snapshot is the
\* one from before the attempt.
C1_CompensationRestores ==
  BaseBranchMissing =>
    LET id == h.issue[1].id
        before == findIssueInTree(h.project, id)[1]
    IN /\ Len(calls) >= 4
       /\ calls[4].api = "issues.get" /\ calls[4].number = id
       /\ calls[4].ok =>
            /\ Len(calls) = 5
            /\ calls[5].api = "issues.update" /\ calls[5].number = id
            /\ calls[5].data = <<RecordOfItem(before)>>
            /\ calls[5].ok => github[id] = RecordOfItem(before)
       /\ LastToast.type = "error"
       /\ LastToast.message = (IF calls[Len(calls)].ok THEN "update.reverted"
                               ELSE "update.rollbackfailed")
       /\ \A i \in 1..Len(toasts) : toasts[i].type # "success"
       /\ project = h.project

\* a leaf that was Done is moved to In Progress, the base branch is missing,
\* and the compensating update has closed the issue again
C1_Witness ==
  /\ BaseBranchMissing
  /\ h.originalIssue[1].state = "Done"
  /\ h.issue[1].title # h.originalIssue[1].title
  /\ Len(calls) = 5 /\ calls[5].ok
  /\ github[h.issue[1].id].state = "closed"
  /\ github[h.issue[1].id].title = h.originalIssue[1].title

\* C2 (as the specification states it): when the creation of the branch of
\* a leaf moved to In Progress fails because the branch exists, the
\* transition's result is success, no compensating update is issued and the
\* saga ends with the success notification.
C2_AlreadyExistsIsSuccess ==
  ( /\ h.kind = "update" /\ h.pc = "done"
    /\ h.issue[1].state = "In Progress"
    /\ \E i \in 1..Len(calls) : calls[i].api = "git.createRef" /\ ~calls[i].ok
    /\ h.branchResult.error = "branch.exists" )
  => /\ h.branchResult.success
     /\ calls[Len(calls)].api = "git.createRef"
     /\ LastToast = Toast("success", "update.success")

\* C3 (as the specification states it): when the first request of a delete
\* saga is in flight, the ids of the item and of all its descendants are in
\* the deleted-issues cache.
C3_TombstonesBeforeFirstCall ==
  (h.kind = "delete" /\ h.pc = "deleteIssue" /\ calls = <<>>)
  => SubtreeIds(h.issue[1]) \subseteq deletedIssuesCache

DeleteApis == {"issues.getLabel", "issues.get", "issues.update"}

\* the positions in the log of the requests of deleteIssue(n)
DeleteRequests(n) ==
  { i \in 1..Len(calls) : calls[i].api \in DeleteApis /\ calls[i].number = n }

\* C4: when every deleteIssue of a delete saga has succeeded, the saga has
\* closed and labelled n+1 issues, n the number of descendants of the item:
\* each node of the subtree once, and the requests for a node all come
\* after the last request for each of its descendants.
C4_PostOrderDeletes ==
  (h.kind = "delete" /\ h.pc \in {"sync", "done"} /\ Len(h.todo) = 0)
  => LET item == h.issue[1]
         IsDelete(r) == r.api = "issues.update"
         deletes == SelectSeq(calls, IsDelete)
     IN /\ Len(deletes) = countSubIssues(item) + 1
        /\ { deletes[i].number : i \in 1..Len(deletes) } = SubtreeIds(item)
        /\ \A i \in 1..Len(deletes) : deletes[i].ok
        /\ \A n \in AllNodes(<<item>>) :
             \A d \in SubtreeIds(n) \ {n.id} :
               \A i \in DeleteRequests(n.id), j \in DeleteRequests(d) : j < i

\* the delete of issue 2 with its sub-issues 3 and 4 has issued three deletes
C4_Witness ==
  /\ h.kind = "delete" /\ h.pc = "sync" /\ Len(h.todo) = 0
  /\ countSubIssues(h.issue[1]) = 2
  /\ Len(calls) = 9

C6_SuccessAfterPruning ==
  ( /\ h.kind = "delete" /\ h.pc = "deleteIssue" /\ calls = <<>>
    /\ Toast("success", "delete.success") \in Range(toasts) )
  => /\ SubtreeIds(h.issue[1]) \subseteq deletedIssuesCache
     /\ \A n \in AllNodes(project) : n.id \notin SubtreeIds(h.issue[1])

DerivedState(issue) ==
  IF \E i \in 1..Len(issue.subIssues) : issue.subIssues[i].state = "In Progress"
    THEN "In Progress"
  ELSE IF \A i \in 1..Len(issue.subIssues) : issue.subIssues[i].state = "Done"
    THEN "Done"
  ELSE "To Do"

\* C7: in every snapshot published by the update, create and delete sagas,
\* every issue with a sub-issue is In Progress if a sub-issue is, else Done
\* if all sub-issues are, else To Do.
C7_DerivedStateRule ==
  \A n \in AllNodes(project) :
    Len(n.subIssues) > 0 => n.state = DerivedState(n)

\* after a sub-issue was created under a leaf, an update of it was
\* compensated and the snapshot reverted; the former leaf has the state of
\* its only sub-issue
C7_Witness ==
  /\ ops = 2 /\ h.kind = "update" /\ h.pc = "done"
  /\ LastToast.message = "update.reverted"
  /\ \E n \in AllNodes(project) :
       /\ n.id \in LeavesOf(InitShape)
       /\ Len(n.subIssues) = 1
       /\ n.state = "Done"
  /\ \E n \in AllNodes(h.optimisticProject) :
       Len(n.subIssues) > 0 /\ findIssueInTree(project, n.id)[1].state # n.state

(***************************************************************************)
(* Properties of the update saga                                           *)
(***************************************************************************)
BranchApis ==
  {"git.getRef", "git.createRef", "repos.compareCommits", "pulls.create",
   "pulls.merge", "git.deleteRef"}

\* the positions in the log of the requests to the apis of a set
RequestsTo(apis) == { i \in 1..Len(calls) : calls[i].api \in apis }

\* C11: an update submitted for an issue that has a sub-issue is rejected:
\* the handler has ended with the warning alone, has sent no request, and
\* the snapshot is the one the update was submitted on.
C11_NonLeafRejected ==
  (h.kind = "update" /\ Len(h.issue[1].subIssues) > 0)
  => /\ h.pc = "done"
     /\ calls = <<>>
     /\ toasts = <<Toast("warning", "update.nonleaf")>>
     /\ project = h.project

\* a state other than its calculated one was submitted for an issue with
\* sub-issues
C11_Witness ==
  /\ h.kind = "update" /\ h.pc = "done"
  /\ Len(h.issue[1].subIssues) > 0
  /\ findIssueInTree(project, h.issue[1].id)[1].state # h.issue[1].state

\* the update of the issue that handleIssueUpdate sends first has been applied
ForwardUpdateApplied ==
  /\ Len(calls) >= 2
  /\ calls[1].api = "issues.get" /\ calls[1].ok
  /\ calls[2].api = "issues.update" /\ calls[2].ok
  /\ calls[2].number = h.issue[1].id

\* C12: in an update saga every branch request comes after the answered
\* update of the issue, which was applied; and a saga whose update of the
\* issue failed ends without any branch request, with the error
\* notification and no success notification, and with the snapshot from
\* before the attempt.
C12_IssueUpdateFirst ==
  h.kind = "update" =>
    /\ RequestsTo(BranchApis) # {} =>
         /\ ForwardUpdateApplied
         /\ \A i \in RequestsTo(BranchApis) : i > 2
    /\ (h.pc = "done" /\ Len(h.issue[1].subIssues) = 0 /\ ~ForwardUpdateApplied) =>
         /\ RequestsTo(BranchApis) = {}
         /\ toasts = <<Toast("error", "update.failed")>>
         /\ project = h.project

\* GitHub refused the update of an issue moved to In Progress; the
\* optimistic snapshot was taken back
C12_Witness ==
  /\ h.kind = "update" /\ h.pc = "done"
  /\ h.issue[1].state = "In Progress"
  /\ Len(calls) = 2 /\ calls[2].api = "issues.update" /\ ~calls[2].ok
  /\ project = h.project /\ project # h.optimisticProject

\* the position in the log of the comparison that found the issue branch
\* zero commits ahead; 0 when there is none
EmptyComparison ==
  LET found == { i \in RequestsTo({"repos.compareCommits"}) :
                   calls[i].ok /\ calls[i].data[1].ahead_by = 0 }
  IN IF found = {} THEN 0 ELSE CHOOSE i \in found : TRUE

\* C13: when the comparison for a leaf moved to Done found the branch zero
\* commits ahead, no pull request is created or merged; the next request
\* is the deletion of the branch, and when that succeeds the transition's
\* result is success and the saga ends with the success notification.
C13_EmptyBranchDeletedDirectly ==
  (h.kind = "update" /\ EmptyComparison > 0) =>
    LET i == EmptyComparison
    IN /\ h.issue[1].state = "Done"
       /\ RequestsTo({"pulls.create", "pulls.merge"}) = {}
       /\ IF Len(calls) = i THEN h.pc = "deleteEmpty"
          ELSE /\ calls[i + 1].api = "git.deleteRef"
               /\ calls[i + 1].ok =>
                    /\ Len(calls) = i + 1
                    /\ h.pc = "done" /\ h.branchResult.success
                    /\ toasts = <<Toast("info", "branch.emptydeleted"),
                                  Toast("success", "update.success")>>

\* an In Progress leaf with a branch without commits was moved to Done: the
\* branch is gone and the issue is closed
C13_Witness ==
  /\ h.kind = "update" /\ h.pc = "done" /\ EmptyComparison = 3
  /\ h.originalIssue[1].state = "In Progress"
  /\ Len(calls) = 4 /\ calls[4].api = "git.deleteRef" /\ calls[4].ok
  /\ h.issue[1].id \notin branches
  /\ github[h.issue[1].id].state = "closed"
  /\ LastToast = Toast("success", "update.success")

\* the position in the log of the merge that succeeded and was followed by
\* a failed deletion of the branch; 0 when there is none
MergedNotDeleted ==
  LET found == { i \in RequestsTo({"pulls.merge"}) :
                   /\ calls[i].ok /\ i < Len(calls)
                   /\ calls[i + 1].api = "git.deleteRef" /\ ~calls[i + 1].ok }
  IN IF found = {} THEN 0 ELSE CHOOSE i \in found : TRUE

\* C14: when the merge for a leaf moved to Done succeeded and the deletion
\* of the branch then failed, the transition's result is success, the
\* failed deletion is the saga's last request (no compensating update),
\* a warning was shown, and the saga ends with the success notification,
\* the leaf Done in the snapshot and its issue closed.
C14_DeleteFailureIsWarning ==
  (h.kind = "update" /\ MergedNotDeleted > 0) =>
    LET id == h.issue[1].id
    IN /\ h.pc = "done"
       /\ h.branchResult.success
       /\ Len(calls) = MergedNotDeleted + 1
       /\ Cardinality(RequestsTo({"issues.update"})) = 1
       /\ toasts = <<Toast("success", "branch.merged"),
                     Toast("warning", "branch.notdeleted"),
                     Toast("success", "update.success")>>
       /\ findIssueInTree(project, id)[1].state = "Done"
       /\ github[id].state = "closed"

\* the branch of an In Progress leaf was merged and is still there
C14_Witness ==
  /\ h.kind = "update" /\ MergedNotDeleted > 0
  /\ h.originalIssue[1].state = "In Progress"
  /\ h.issue[1].id \in branches
  /\ project = h.optimisticProject /\ project # h.project

\* the transition of the update saga has returned
TransitionReturned ==
  h.kind = "update" /\ h.transitions > 0 /\ h.pc \in {"rollback", "done"}

\* mergeBranch failed, and not on a branch without commits
MergeFailedOtherwise ==
  /\ EmptyComparison = 0
  /\ \E i \in RequestsTo({"repos.compareCommits", "pulls.create", "pulls.merge"}) :
       ~calls[i].ok

\* the branch had no commits and its deletion failed
EmptyBranchNotDeleted ==
  /\ EmptyComparison > 0
  /\ Len(calls) > EmptyComparison
  /\ calls[EmptyComparison + 1].api = "git.deleteRef"
  /\ ~calls[EmptyComparison + 1].ok

\* after the last branch request the saga has asked for the issue again,
\* which is the first request of rollbackIssueState
CompensationIssued ==
  \E i \in RequestsTo({"issues.get"}) :
     /\ i > 2
     /\ calls[i].number = h.issue[1].id
     /\ \A j \in RequestsTo(BranchApis) : j < i

\* C15: the transition of a leaf to Done returns a failure that asks for
\* compensation exactly when the merge failed for another reason than a
\* branch without commits, or the branch had no commits and its deletion
\* failed; and then the compensating update is the handler's next call.
C15_DoneFailuresCompensated ==
  (TransitionReturned /\ h.issue[1].state = "Done") =>
    /\ (~h.branchResult.success /\ h.branchResult.shouldRollback)
         <=> (MergeFailedOtherwise \/ EmptyBranchNotDeleted)
    /\ h.branchResult.success \/ h.branchResult.shouldRollback
    /\ ~h.branchResult.success =>
         IF h.pc = "rollback" THEN ~CompensationIssued ELSE CompensationIssued
    /\ h.branchResult.success => ~CompensationIssued /\ h.pc = "done"

\* a merge conflict on the branch of a leaf moved to Done, compensated
C15_Witness ==
  /\ TransitionReturned /\ h.issue[1].state = "Done" /\ h.pc = "done"
  /\ h.branchResult.error = "merge.409"
  /\ CompensationIssued
  /\ github[h.issue[1].id].state = "open"

\* the update saga has ended after a failed transition
EndedAfterFailedTransition ==
  TransitionReturned /\ h.pc = "done" /\ ~h.branchResult.success

OutcomeMessages ==
  {"update.success", "update.failed", "update.reverted", "update.rollbackfailed"}

\* the outcome notifications shown, in order
Outcomes ==
  LET IsOutcome(t) == t.message \in OutcomeMessages
  IN SelectSeq(toasts, IsOutcome)

\* C16: when the transition failed and the compensating update failed too,
\* the saga ends with the one error notification 'failed to rollback',
\* which is not the notification of a compensated failure; it shows no
\* success notification, and the snapshot is the one from before the
\* attempt.
C16_RollbackFailureReported ==
  (EndedAfterFailedTransition /\ ~calls[Len(calls)].ok) =>
    /\ CompensationIssued
    /\ Outcomes = <<Toast("error", "update.rollbackfailed")>>
    /\ LastToast = Toast("error", "update.rollbackfailed")
    /\ Toast("error", "update.reverted") \notin Range(toasts)
    /\ \A i \in 1..Len(toasts) : toasts[i].type # "success"
    /\ project = h.project

\* the branch of a To Do leaf moved to In Progress could not be created and
\* the issue could not be reopened as To Do: it keeps the in-progress label
C16_Witness ==
  /\ EndedAfterFailedTransition /\ ~calls[Len(calls)].ok
  /\ h.originalIssue[1].state = "To Do"
  /\ calls[Len(calls)].api = "issues.update"
  /\ "in-progress" \in github[h.issue[1].id].labels
  /\ findIssueInTree(project, h.issue[1].id)[1].state = "To Do"

\* the positions in the log of the requests of rollbackIssueState: the
\* requests for the issue after the two of the forward update
CompensationRequests ==
  { i \in RequestsTo({"issues.get", "issues.update"}) : i > 2 }

\* C17: the requests of the compensating update come after the transition
\* returned a failure, whose last branch request failed right before them;
\* they are the last requests of the saga, with no branch request and no
\* second update among or after them.
C17_CompensationLast ==
  (h.kind = "update" /\ CompensationRequests # {}) =>
    LET first == CHOOSE i \in CompensationRequests :
                   \A j \in CompensationRequests : i <= j
    IN /\ h.pc = "done"
       /\ h.transitions = 1
       /\ ~h.branchResult.success
       /\ ForwardUpdateApplied
       /\ CompensationRequests = first..Len(calls)
       /\ \A j \in RequestsTo(BranchApis) : j < first
       /\ calls[first - 1].api \in BranchApis /\ ~calls[first - 1].ok
       /\ calls[first].api = "issues.get"
       /\ Len(calls) <= first + 1
       /\ Len(calls) = first + 1 => calls[first + 1].api = "issues.update"

\* createRef failed for a leaf moved to In Progress and the issue was
\* updated back
C17_Witness ==
  /\ h.kind = "update" /\ h.pc = "done"
  /\ Len(calls) = 6
  /\ calls[4].api = "git.createRef" /\ ~calls[4].ok
  /\ CompensationRequests = {5, 6} /\ calls[6].ok

\* C18: handleStateTransition is called once in an update saga whose update
\* of the issue was applied and not at all in any other; every failure it
\* returns asks for the rollback, and a saga whose transition failed shows
\* no success notification, while one whose transition succeeded ends with
\* it.
C18_TransitionResultUsed ==
  h.kind = "update" =>
    /\ h.transitions = (IF ForwardUpdateApplied THEN 1 ELSE 0)
    /\ Cardinality(RequestsTo({"git.getRef"})) <= 1
    /\ Cardinality(RequestsTo({"repos.compareCommits"})) <= 1
    /\ RequestsTo({"git.getRef"}) = {} \/ RequestsTo({"repos.compareCommits"}) = {}
    /\ TransitionReturned =>
         /\ ~h.branchResult.success =>
              /\ h.branchResult.shouldRollback
              /\ Toast("success", "update.success") \notin Range(toasts)
              /\ h.pc = "done" => LastToast.type = "error"
         /\ h.branchResult.success =>
              h.pc = "done" /\ LastToast = Toast("success", "update.success")

\* a transition that failed on a missing branch: the saga ended with an
\* error
C18_Witness ==
  /\ TransitionReturned /\ h.pc = "done"
  /\ h.branchResult = TransitionFailure("merge.404")
  /\ LastToast.type = "error"

\* an update saga that sent its first request has ended
UpdateEnded ==
  h.kind = "update" /\ h.pc = "done" /\ Len(h.issue[1].subIssues) = 0

\* the outcome of an ended update saga agrees with what happened
OutcomeAgrees ==
  LET outcome == Outcomes[1].message
  IN /\ outcome = "update.failed" <=> ~ForwardUpdateApplied
     /\ outcome = "update.success" <=> (ForwardUpdateApplied /\ h.branchResult.success)
     /\ outcome = "update.reverted" <=>
          (ForwardUpdateApplied /\ ~h.branchResult.success /\ calls[Len(calls)].ok)
     /\ outcome = "update.rollbackfailed" <=>
          (ForwardUpdateApplied /\ ~h.branchResult.success /\ ~calls[Len(calls)].ok)

\* C19: an update saga whose first request is in flight ends, given that
\* every awaited call returns; it shows no outcome before its end and
\* exactly one at its end (success, update refused, compensated failure,
\* failure with failed compensation), the one that happened; and the
\* loading flag, set while it runs, is cleared at its end.
C19_TerminatesWithOneOutcome ==
  /\ [](UpdateEnded => (Len(Outcomes) = 1 /\ OutcomeAgrees /\ ~h.loading))
  /\ []((h.kind = "update" /\ h.pc # "done") => (Outcomes = <<>> /\ h.loading))
  /\ ((h.kind = "update" /\ h.pc = "updateIssue") ~> UpdateEnded)

\* a saga of five requests has ended as a compensated failure
C19_Witness ==
  /\ UpdateEnded /\ ops = 2
  /\ Len(calls) = 5
  /\ Outcomes = <<Toast("error", "update.reverted")>>
  /\ ~h.loading

\* C20: within one update saga no request is sent twice, whatever fails:
\* one read and one update of the issue at most for the forward update and
\* one of each at most for the compensation, and at most one request to
\* each branch api.
C20_NoRetries ==
  h.kind = "update" =>
    /\ \A api \in BranchApis : Cardinality(RequestsTo({api})) <= 1
    /\ \A api \in {"issues.get", "issues.update"} :
         /\ Cardinality(RequestsTo({api}) \ CompensationRequests) <= 1
         /\ Cardinality(RequestsTo({api}) \cap CompensationRequests) <= 1
    /\ Len(calls) <= 7

\* createRef failed and then the compensating update failed: six requests,
\* none repeated
C20_Witness ==
  /\ h.kind = "update" /\ h.pc = "done"
  /\ Len(calls) = 6
  /\ calls[4].api = "git.createRef" /\ ~calls[4].ok
  /\ calls[6].api = "issues.update" /\ ~calls[6].ok

(***************************************************************************)
(* Properties of the delete and create sagas, the cache and the branches   *)
(***************************************************************************)
\* the background task of a delete saga has failed: in a deleteIssue, or in
\* reading the repository afterwards
BackgroundFailed ==
  /\ h.kind = "delete" /\ h.pc = "done"
  /\ Len(h.todo) > 0 \/ ~calls[Len(calls)].ok

\* C21: whatever the background task of a delete saga does, the only
\* notification of the saga is the success shown at its start, and the
\* handler is not waiting (its loading flag is cleared) while the task runs
\* and after it failed.
C21_BackgroundFailureSilent ==
  h.kind = "delete" =>
    /\ toasts = <<Toast("success", "delete.success")>>
    /\ ~h.loading

\* the second deleteIssue of three failed
C21_Witness ==
  /\ BackgroundFailed
  /\ Len(h.todo) = 2 /\ countSubIssues(h.issue[1]) = 2
  /\ ~calls[Len(calls)].ok

\* the ids an answer of listSubIssues holds
ListedSubIssueIds(p) ==
  { n.id : n \in Range(listSubIssues(github, subIssuesOf, p, FALSE)) }

\* C22: a list read returns no issue labelled deleted and no issue of the
\* deleted-issues cache.  Here for listSubIssues, read in any state for any
\* parent: no returned sub-issue is in the cache.
C22_ListSubIssuesFiltered ==
  \A p \in DOMAIN subIssuesOf : ListedSubIssueIds(p) \cap deletedIssuesCache = {}

\* the same for the two reads that do consult the cache
RepositoryReadsFiltered ==
  LET listed == getRepositoryIssues(github, deletedIssuesCache)
      built == buildIssueHierarchy(listForRepo(github), github, subIssuesOf,
                                   deletedIssuesCache, {})
  IN /\ \A n \in Range(listed) : ~MarkedDeleted(n) /\ n \notin deletedIssuesCache
     /\ \A n \in AllNodes(built) : ~MarkedDeleted(n.id) /\ n.id \notin deletedIssuesCache

\* a call of syncDeletedCacheWithGitHub has returned after its list was read
SyncPassed == h.kind = "syncCache" /\ h.pc = "done" /\ calls[1].ok

\* the issues the list of the last sync showed with the deleted label
ObservedDeleted ==
  { g.number : g \in { g \in Range(calls[1].data) : "deleted" \in g.labels } }

\* C23: after one pass of syncDeletedCacheWithGitHub the cache holds exactly
\* the issues the observed list shows with the deleted label: every cached
\* issue the list shows without the label, or does not show, is removed, and
\* every issue shown with the label is added.
C23_SyncMatchesObservedLabels ==
  SyncPassed =>
    /\ deletedIssuesCache = ObservedDeleted
    /\ \A c \in Range(h.todo) : c \notin ObservedDeleted => c \notin deletedIssuesCache
    /\ \A n \in ObservedDeleted : n \in deletedIssuesCache

\* one pass removed a cached issue and added a labelled one
C23_Witness ==
  /\ SyncPassed
  /\ \E c \in Range(h.todo) : c \notin deletedIssuesCache
  /\ \E n \in deletedIssuesCache : n \notin Range(h.todo)

\* the step is a call of syncDeletedCacheWithGitHub that read its list
SyncPass == h'.kind = "syncCache" /\ h' # h /\ calls'[1].ok

\* C24: a pass of syncDeletedCacheWithGitHub changes nothing but the cache:
\* the published project, the issue records, the sub-issue links and the
\* branches stay as they were, its only request is the list read, and a
\* second pass over the same list leaves the cache as the first one left it.
C24_SyncIdempotentCacheOnly ==
  [][SyncPass =>
       /\ project' = project
       /\ github' = github /\ subIssuesOf' = subIssuesOf /\ branches' = branches
       /\ \A i \in 1..Len(calls') : calls'[i].api = "issues.listForRepo"
       /\ syncDeletedCacheWithGitHub(deletedIssuesCache', calls'[1].data)
            = deletedIssuesCache']_vars

\* a pass has changed the cache
C24_Witness ==
  /\ SyncPassed
  /\ deletedIssuesCache # Range(h.todo)
  /\ Len(calls) = 1

\* a create saga has ended with the success toast
CreateSucceeded ==
  /\ h.kind = "create" /\ h.pc = "done"
  /\ LastToast = Toast("success", "create.success")

\* the number GitHub gave the issue of the create saga
CreatedNumber ==
  LET i == CHOOSE i \in 1..Len(calls) : calls[i].api = "issues.create"
  IN calls[i].number

\* how often an id occurs in a forest
Occurrences(issues, id) ==
  Cardinality({ i \in 1..Len(NodeSeq(issues)) : NodeSeq(issues)[i].id = id })

\* the issues of a forest that hold the issue id among their descendants, and
\* the issue itself
HoldersOf(issues, id) == { n.id : n \in { n \in AllNodes(issues) : id \in SubtreeIds(n) } }

\* C25: after a successful create the published project holds no issue with
\* the temporary id and holds the created issue once, where the optimistic
\* issue was: as the last sub-issue of the chosen parent, or as the last root
\* issue.  Every other issue is as in the optimistic project.
C25_PlaceholderReplaced ==
  CreateSucceeded =>
    LET realIssue == [h.issue[1] EXCEPT !.id = CreatedNumber]
        ids == [i \in 1..Len(NodeSeq(project)) |-> NodeSeq(project)[i].id]
        optimisticIds == [i \in 1..Len(NodeSeq(h.optimisticProject)) |->
                            NodeSeq(h.optimisticProject)[i].id]
    IN /\ Occurrences(project, TempId) = 0
       /\ Occurrences(project, CreatedNumber) = 1
       /\ IF Len(h.parent) = 0
            THEN project[Len(project)] = realIssue
          ELSE LET parent == findIssueInTree(project, h.parent[1].id)[1]
               IN parent.subIssues[Len(parent.subIssues)] = realIssue
       /\ Len(ids) = Len(optimisticIds)
       /\ \A i \in 1..Len(ids) :
            /\ ids[i] = IF optimisticIds[i] = TempId THEN CreatedNumber ELSE optimisticIds[i]
            /\ NodeSeq(project)[i].id \notin HoldersOf(project, CreatedNumber)
                 => NodeSeq(project)[i] = NodeSeq(h.optimisticProject)[i]
            /\ NodeSeq(project)[i].state = NodeSeq(h.optimisticProject)[i].state
            /\ NodeSeq(project)[i].title = NodeSeq(h.optimisticProject)[i].title

\* a sub-issue was created under a leaf
C25_Witness ==
  /\ CreateSucceeded
  /\ Len(h.parent) > 0
  /\ isLeafIssue(h.parent[1])
  /\ Occurrences(project, CreatedNumber) = 1

\* a create saga has ended whose creation GitHub refused, or whose created
\* issue could not be linked to its parent
ExternalCreateFailed ==
  /\ h.kind = "create" /\ h.pc = "done"
  /\ \/ \A i \in 1..Len(calls) : ~(calls[i].api = "issues.create" /\ calls[i].ok)
     \/ \E i \in 1..Len(calls) : calls[i].api = "sub_issues.add" /\ ~calls[i].ok

\* C26: after a create whose external creation failed (the create of a root
\* issue, or the create and link of a sub-issue) the published project is the
\* one from before the create, it holds no issue with the temporary id, and
\* the error toast was shown.
C26_CreateFailureReverts ==
  ExternalCreateFailed =>
    /\ project = h.project
    /\ Occurrences(project, TempId) = 0
    /\ Occurrences(h.optimisticProject, TempId) = 1
    /\ toasts = <<Toast("error", "create.failed")>>

\* the issue was created and could not be linked: it stays in the repository,
\* and the project is the one from before
C26_Witness ==
  /\ ExternalCreateFailed
  /\ \E i \in 1..Len(calls) : calls[i].api = "sub_issues.add" /\ ~calls[i].ok
  /\ CreatedNumber \in DOMAIN github
  /\ project = h.project

\* the leaves of the published project
LeafItems == { n \in AllNodes(project) : isLeafIssue(n) }

\* C27 (as the specification states it): when no update saga is running, the
\* branch of a leaf exists if and only if the leaf is In Progress; in
\* particular a leaf that is To Do has no branch.
C27_BranchIffInProgress ==
  Quiet =>
    \A n \in LeafItems :
      /\ n.state = "In Progress" => n.id \in branches
      /\ n.state = "To Do" => n.id \notin branches

\* the request of an ended update saga to an api of a set
Requested(apis) == UpdateEnded /\ RequestsTo(apis) # {}

\* C28 (as the specification states it): an update saga sends a request that
\* creates a branch only when the leaf was To Do or Done and is set to
\* In Progress, and a request that merges or deletes a branch only when the
\* leaf was In Progress and is set to Done; an update that leaves the state
\* as it was, or sets it to To Do, sends no branch request.
C28_BranchRequestsOnlyOnTransition ==
  /\ Requested({"git.getRef", "git.createRef"}) =>
       /\ h.originalIssue[1].state \in {"To Do", "Done"}
       /\ h.issue[1].state = "In Progress"
  /\ Requested({"repos.compareCommits", "pulls.create", "pulls.merge", "git.deleteRef"}) =>
       /\ h.originalIssue[1].state = "In Progress"
       /\ h.issue[1].state = "Done"
  /\ Requested(BranchApis) => h.originalIssue[1].state # h.issue[1].state

(***************************************************************************)
(* Properties of the operations on the issue tree                          *)
(***************************************************************************)
\* an issue without its sub-issues
Fields(issue) == [issue EXCEPT !.subIssues = <<>>]

RECURSIVE DiffersOnlyAt(_, _, _, _)
\* forest b is forest a, but for the issue target, in whose place b has
\* expected[that issue]
DiffersOnlyAt(a, b, target, expected) ==
  /\ Len(a) = Len(b)
  /\ \A i \in 1..Len(a) :
       IF a[i].id = target THEN b[i] = expected[a[i]]
       ELSE /\ Fields(a[i]) = Fields(b[i])
            /\ DiffersOnlyAt(a[i].subIssues, b[i].subIssues, target, expected)

TreeCalled(op) == engPc = "called" /\ h.kind = op

TargetPresent == Len(findIssueInTree(engOut2, h.target)) > 0

\* C29: updateIssueInTree, addIssueToParent and replaceIssueInTree leave the
\* forest they are given as it was; their result is that forest but for the
\* target, which is replaced by the given issue (update, replace) or has the
\* new issue appended as its last sub-issue (add); and when no issue has the
\* target id the result equals the forest given.
C29_TreeEditsLeaveInput ==
  /\ (TreeCalled("updateIssueInTree") \/ TreeCalled("replaceIssueInTree")) =>
       /\ engIn = engOut2
       /\ DiffersOnlyAt(engOut2, engOut, h.target,
                        [n \in AllNodes(engOut2) |-> h.issue[1]])
       /\ ~TargetPresent => engOut = engOut2
  /\ TreeCalled("addIssueToParent") =>
       /\ engIn = engOut2
       /\ DiffersOnlyAt(engOut2, engOut, h.target,
                        [n \in AllNodes(engOut2) |->
                           [n EXCEPT !.subIssues = Append(n.subIssues, h.issue[1])]])
       /\ ~TargetPresent => engOut = engOut2

\* a new issue was added to a parent below the root level that has a
\* sub-issue already
C29_Witness ==
  /\ TreeCalled("addIssueToParent")
  /\ TargetPresent
  /\ \A i \in 1..Len(engOut2) : engOut2[i].id # h.target
  /\ Len(findIssueInTree(engOut2, h.target)[1].subIssues) > 0
  /\ engOut # engOut2

\* C30 (as the specification states it): removeIssueFromTree returns the
\* forest without the issue and its sub-issues, every other issue kept in
\* order, and the forest it was given is after the call as it was before:
\* it still holds the issue under its parent.
C30_RemoveLeavesInput ==
  TreeCalled("removeIssueFromTree") =>
    /\ engIn = engOut2
    /\ TargetPresent => Len(findIssueInTree(engIn, h.target)) > 0

\* what removeIssueFromTree returns: the issue and its sub-issues are gone,
\* the other issues are kept in order
RemoveResultRight ==
  TreeCalled("removeIssueFromTree") =>
    LET gone == IF TargetPresent
                  THEN SubtreeIds(findIssueInTree(engOut2, h.target)[1])
                ELSE {}
        Stays(n) == n.id \notin gone
        before == SelectSeq(NodeSeq(engOut2), Stays)
        after == NodeSeq(engOut)
    IN /\ Len(after) = Len(before)
       /\ \A i \in 1..Len(after) : Fields(after[i]) = Fields(before[i])

(***************************************************************************)
(* Properties of the state calculation.                                    *)
(***************************************************************************)
\* the node of a forest with the given id
NodeById(issues, id) == CHOOSE n \in AllNodes(issues) : n.id = id

HasInProgressLeafBeneath(issue) ==
  \E m \in AllNodes(issue.subIssues) : isLeafIssue(m) /\ m.state = "In Progress"

AllSubIssuesDone(issue) ==
  \A i \in 1..Len(issue.subIssues) : issue.subIssues[i].state = "Done"

\* C8: after state computation every internal node with an In Progress leaf
\* anywhere beneath it, at any depth, is In Progress, whatever the states of
\* its other descendants.
C8_InProgressDescendantWins ==
  engPc \in {"once", "twice"} =>
    \A n \in AllNodes(engOut) :
      (~isLeafIssue(n) /\ HasInProgressLeafBeneath(n)) => n.state = "In Progress"

\* C8 witness: children [Done, a node stored as To Do with an In Progress
\* grandchild]; the parent was stored as Done and is computed In Progress.
C8_Witness ==
  /\ engPc = "once"
  /\ \E n \in AllNodes(engOut) :
       /\ Len(n.subIssues) = 2
       /\ n.subIssues[1].state = "Done"
       /\ isLeafIssue(n.subIssues[1])
       /\ Len(n.subIssues[2].subIssues) = 1
       /\ n.subIssues[2].subIssues[1].state = "In Progress"
       /\ NodeById(engIn, n.subIssues[2].id).state = "To Do"
       /\ NodeById(engIn, n.id).state = "Done"
       /\ n.state = "In Progress"

\* C9: after state computation an internal node is Done exactly when every
\* one of its children is Done, and with no child In Progress and not all
\* Done it is To Do ([Done, Done] -> Done, [Done, To Do] -> To Do, a single
\* Done child -> Done).
C9_DoneIffAllChildrenDone ==
  engPc \in {"once", "twice"} =>
    \A n \in AllNodes(engOut) :
      ~isLeafIssue(n) =>
        /\ (n.state = "Done") <=> AllSubIssuesDone(n)
        /\ ( /\ ~AllSubIssuesDone(n)
             /\ \A i \in 1..Len(n.subIssues) : n.subIssues[i].state # "In Progress" )
           => n.state = "To Do"

\* C9 witness: a node stored as Done with children [Done, To Do] comes out
\* To Do, and its Done child, stored as To Do, is Done by its single Done child.
C9_Witness ==
  /\ engPc = "once"
  /\ \E n \in AllNodes(engOut) :
       /\ Len(n.subIssues) = 2
       /\ n.subIssues[1].state = "Done"
       /\ Len(n.subIssues[1].subIssues) = 1
       /\ NodeById(engIn, n.subIssues[1].id).state = "To Do"
       /\ n.subIssues[2].state = "To Do"
       /\ NodeById(engIn, n.id).state = "Done"
       /\ n.state = "To Do"

\* C10: the state calculation is idempotent: applied to its own output it
\* returns a forest equal to that output.
C10_Idempotent ==
  engPc = "twice" => engOut2 = engOut

\* C10 witness: a second pass has run on a forest that the first pass changed.
C10_Witness ==
  /\ engPc = "twice"
  /\ engOut # engIn
  /\ \E n \in AllNodes(engOut) : Len(n.subIssues) > 0 /\ ~isLeafIssue(n.subIssues[1])

RECURSIVE SameButInnerStates(_, _)
\* forest b is forest a but for the states of the issues with sub-issues
SameButInnerStates(a, b) ==
  /\ Len(a) = Len(b)
  /\ \A i \in 1..Len(a) :
       /\ [Fields(a[i]) EXCEPT !.state = "To Do"] = [Fields(b[i]) EXCEPT !.state = "To Do"]
       /\ isLeafIssue(a[i]) => (isLeafIssue(b[i]) /\ b[i].state = a[i].state)
       /\ SameButInnerStates(a[i].subIssues, b[i].subIssues)

\* C31: the state calculation changes nothing but the states of the issues
\* with sub-issues: every leaf keeps its state, and the forest has the same
\* issues with the same ids, titles, sub-issues and order as before.
C31_OnlyInnerStatesChange ==
  engPc \in {"once", "twice"} => SameButInnerStates(engIn, engOut)

\* the calculation changed the state of an issue with sub-issues, under
\* which leaves of two different states stay as they were
C31_Witness ==
  /\ engPc = "once"
  /\ engOut # engIn
  /\ \E n \in AllNodes(engOut) :
       /\ Len(n.subIssues) = 2
       /\ isLeafIssue(n.subIssues[1]) /\ isLeafIssue(n.subIssues[2])
       /\ n.subIssues[1].state = "Done" /\ n.subIssues[2].state = "To Do"
       /\ NodeById(engIn, n.id).state = "Done"
       /\ n.state = "To Do"

\* the positions of the issues with the target id in the pre-order of the
\* forest searched
MatchPositions ==
  { i \in 1..Len(NodeSeq(engOut2)) : NodeSeq(engOut2)[i].id = h.target }

\* C32: findIssueInTree returns the first issue with the target id in the
\* pre-order of the forest, and returns null (no issue, and no failure) when
\* no issue has that id.
C32_FindFirstInPreOrder ==
  TreeCalled("findIssueInTree") =>
    IF MatchPositions = {} THEN engOut = <<>>
    ELSE LET first == CHOOSE i \in MatchPositions : \A j \in MatchPositions : i <= j
         IN engOut = <<NodeSeq(engOut2)[first]>>

\* an issue was found among the sub-issues of a root issue, behind a sibling
C32_Witness ==
  /\ TreeCalled("findIssueInTree")
  /\ Len(engOut) = 1
  /\ \E i \in 1..Len(engOut2) :
       \E j \in 2..Len(engOut2[i].subIssues) : engOut2[i].subIssues[j] = engOut[1]

(***************************************************************************)
(* Properties of the reads of the repository                               *)
(***************************************************************************)
\* a call of getRepositoryIssues has returned a list
ReadReturned == h.kind = "listRead" /\ calls[1].ok

\* the numbers of the issues the last read returned
ReturnedNumbers == { g.number : g \in Range(calls[1].data) }

\* C33 (as the specification states it): an issue whose deleteIssue has
\* succeeded in this session is returned by no later getRepositoryIssues,
\* whatever syncs of the cache have run and even when issues.listForRepo
\* still shows the issue without the deleted label.
C33_DeletedStaysHidden ==
  ReadReturned => \A n \in ReturnedNumbers : ~MarkedDeleted(n)

(***************************************************************************)
(* Properties that relate the project to the repository                    *)
(***************************************************************************)
\* the state of the issue of the update saga in the published project is
\* the one its record decodes to
LeafAligned ==
  findIssueInTree(project, h.issue[1].id)[1].state
    = convertGitHubIssue(github, parseInt(h.issue[1].id)).state

\* the state the issue had in the project the saga started on is the one its
\* record decodes to
OriginalAligned ==
  h.originalIssue[1].state = convertGitHubIssue(github, parseInt(h.issue[1].id)).state

UpdateFailedAroundCreate ==
  /\ h.kind = "update" /\ h.pc = "done"
  /\ LastToast.type = "error"
  /\ Toast("success", "create.success") \in Range(toasts)

\* C35 (as the specification states it): when an update saga reverts to the
\* project it started on, the issue that a create saga has created and
\* reported as created in the meantime is still in the published project.
C35_RevertKeepsCreatedIssue ==
  UpdateFailedAroundCreate => Occurrences(project, CreatedNumber) = 1

\* while a delete saga ran, a create saga ended with its success notification
DeleteAroundCreate ==
  /\ h.kind = "delete"
  /\ Toast("success", "create.success") \in Range(toasts)

\* C36 (as the specification states it): a sub-issue created while the
\* deletes of a delete saga run is never left live under a parent that is
\* marked deleted in the repository.
C36_NoLiveSubIssueOfDeletedParent ==
  DeleteAroundCreate =>
    \A p \in DOMAIN subIssuesOf :
      (CreatedNumber \in Range(subIssuesOf[p]) /\ MarkedDeleted(p))
        => MarkedDeleted(CreatedNumber)

(***************************************************************************)
(* Properties of the service calls                                         *)
(***************************************************************************)
\* a deleteIssue of the delete saga has failed: the saga has ended with
\* issues left to delete, the first of which is the one that failed
DeleteIssueFailed == h.kind = "delete" /\ h.pc = "done" /\ Len(h.todo) > 0

\* every read of the repository whose list holds issue n returns it
VisibleInReads(n) ==
  /\ n \in Range(getRepositoryIssues(github, deletedIssuesCache))
  /\ \A data \in ObservedLists(github) :
       \A g \in Range(data) :
         g.number = n => g \in Range(activeIssues(data, deletedIssuesCache))

\* while deleteIssue waits for its first request the issue is in the cache
TombstoneBeforeRequest ==
  (h.kind = "delete" /\ h.pc = "deleteIssue") =>
    /\ parseInt(h.todo[1]) \in deletedIssuesCache
    /\ DeleteRequests(parseInt(h.todo[1])) = {}

UpdateIssueReturns ==
  /\ h.kind = "update" /\ h.pc \in {"updateIssue", "rollback"}
  /\ h'.kind = "update" /\ h'.pc # h.pc

\* the requests the step added to the log
AddedRequests == { calls'[i] : i \in (Len(calls) + 1)..Len(calls') }

\* the step ended the handler with the message of a failed call
EndsAsFailed ==
  /\ h'.pc = "done"
  /\ toasts'[Len(toasts')].message =
       (IF h.pc = "rollback" THEN "update.rollbackfailed" ELSE "update.failed")

\* C38: updateIssue on an id in the tombstone set fails without any request
\* and leaves the set unchanged; on an id whose record carries the deleted
\* label it fails without the update request; so a compensating update on a
\* tombstoned issue ends with the message of the failed compensation.
C38_UpdateOfDeletedRefused ==
  [][UpdateIssueReturns =>
       LET n == parseInt(h.issue[1].id)
       IN /\ n \in deletedIssuesCache =>
               /\ calls' = calls
               /\ deletedIssuesCache' = deletedIssuesCache
               /\ github' = github
               /\ EndsAsFailed
          /\ (n \notin deletedIssuesCache /\ MarkedDeleted(n)) =>
               /\ \A q \in AddedRequests : q.api # "issues.update"
               /\ github' = github
               /\ EndsAsFailed]_vars

\* a compensation that was refused for the tombstone: the issue was deleted
\* while the handler of the update waited for its branch request
C38_Witness ==
  /\ h.kind = "update" /\ h.pc = "done"
  /\ Len(toasts) > 0 /\ LastToast.message = "update.rollbackfailed"
  /\ parseInt(h.issue[1].id) \in deletedIssuesCache
  /\ MarkedDeleted(parseInt(h.issue[1].id))
  /\ suspended = <<>>


(***************************************************************************)
(* Properties of createSubIssue.                                           *)
(***************************************************************************)
\* a step in which the awaited createSubIssue returns or throws
CreateSubIssueReturns ==
  /\ h.kind = "create" /\ h.pc = "create" /\ Len(h.parent) > 0
  /\ h'.kind = "create" /\ h'.pc = "done"

\* the step issued a request to api that was answered with ok
Answered(api, ok) ==
  \E i \in (Len(calls) + 1)..Len(calls') : calls'[i].api = api /\ calls'[i].ok = ok

\* issue n is in no filtered read of the records gh under the tombstones cache
HiddenFromReads(gh, cache, n) ==
  \A data \in ObservedLists(gh) :
     \A g \in Range(activeIssues(data, cache)) : g.number # n

OrphanNamed(n) == <<"Orphaned", "issue", "#", ToString(n)>>

\* an issue created after the initial ones that was soft-deleted
SoftDeletedOrphans ==
  { n \in DOMAIN github : /\ n > Len(InitShape)
                          /\ github[n].labels = {"deleted"}
                          /\ n \in deletedIssuesCache }

\* C39: createSubIssue creates no issue when the validation of the parent
\* fails; when the link fails the created issue is tombstoned and labelled
\* deleted, so that no later filtered read returns it, and an error is raised;
\* when that soft delete fails too, an error naming the orphaned issue is
\* raised and the issue is not left in the tombstone set.
C39_CreateThenLinkWithRollback ==
  /\ [][CreateSubIssueReturns =>
          LET n == NextNumber(github)
          IN /\ ~Answered("issues.create", TRUE) =>
                  /\ github' = github /\ subIssuesOf' = subIssuesOf
                  /\ deletedIssuesCache' = deletedIssuesCache
                  /\ h'.thrown # <<>>
             /\ (Answered("sub_issues.add", FALSE) /\ Answered("issues.update", TRUE)) =>
                  /\ n \in deletedIssuesCache'
                  /\ n \in DOMAIN github' /\ "deleted" \in github'[n].labels
                  /\ HiddenFromReads(github', deletedIssuesCache', n)
                  /\ h'.thrown # <<>> /\ ~Includes(h'.thrown, OrphanNamed(n))
             /\ (Answered("sub_issues.add", FALSE) /\ Answered("issues.update", FALSE)) =>
                  /\ Includes(h'.thrown, OrphanNamed(n))
                  /\ n \notin deletedIssuesCache']_vars
  /\ [](ReadReturned => ReturnedNumbers \cap SoftDeletedOrphans = {})

\* a read of the issue list after a sub-issue that could not be linked was
\* soft-deleted
C39_Witness ==
  /\ ReadReturned
  /\ SoftDeletedOrphans # {}
  /\ \E data \in ObservedLists(github) :
       \E g \in Range(data) : g.number \in SoftDeletedOrphans /\ ~("deleted" \in g.labels)


(***************************************************************************)
(* Properties of the forest of buildIssueHierarchy.                        *)
(***************************************************************************)
RECURSIVE Placed(_, _, _)
\* the nodes of a forest in pre-order, each with its depth and with the id of
\* the node that holds it
Placed(issues, depth, holder) ==
  IF Len(issues) = 0 THEN <<>>
  ELSE <<[id |-> Head(issues).id, level |-> Head(issues).level,
          parentId |-> Head(issues).parentId, depth |-> depth, holder |-> holder]>>
         \o Placed(Head(issues).subIssues, depth + 1, <<Head(issues).id>>)
         \o Placed(Tail(issues), depth, holder)

ProjectLoaded == h.kind = "load" /\ h.pc = "done" /\ calls[1].ok

\* C40: in the forest of buildIssueHierarchy, whatever the order of the list,
\* each active issue appears exactly once, the level of each node is its depth
\* and its parentId is the id of the node that holds it.
C40_LevelsMatchForest ==
  ProjectLoaded =>
    LET nodes == Placed(h.issue, 0, <<>>)
    IN /\ \A n \in Range(calls[1].data) :
            Cardinality({ i \in 1..Len(nodes) : nodes[i].id = n }) = 1
       /\ \A i \in 1..Len(nodes) :
            /\ nodes[i].level = nodes[i].depth
            /\ nodes[i].parentId = nodes[i].holder

====
